---- MODULE Spec2Model ----
(***************************************************************************)
(* A state-machine model of the Strelitzia analysis application:           *)
(*   - the CLI application, its lifecycle and the MT5 connector's session  *)
(*     tracking             (core/app.py, core/lifecycle.py,               *)
(*                           mt5/connector.py)                             *)
(*   - the market-data manager and its cache   (mt5/market_data.py)        *)
(*   - the account monitor                     (mt5/account_monitor.py)    *)
(*   - the continuous analysis engine          (analysis/engine.py)        *)
(*   - the web UI's WebSocket fan-out          (ui/webapp.py)              *)
(* Each component has its own variables, actions and specification.        *)
(***************************************************************************)
EXTENDS Integers, Sequences, FiniteSets, TLC

VARIABLES
    \* ---- terminal bridge, as seen by the CLI application
    mt5_account,        \* what mt5.account_info() returns now
    \* ---- MT5Connector (mt5/connector.py)
    session_account,    \* _session_account
    session_server,     \* _session_server
    session_id,         \* _session_id
    \* ---- StrelitziaApp (core/app.py)
    app_pc,             \* position of run() / main_menu()
    lifecycle_state,    \* LifecycleManager._state
    last_session_id,    \* StrelitziaApp._last_session_id
    data_cache,         \* market_data_manager._data_cache
    app_log,            \* observation of the last session call
    \* ---- wall clock, in minutes
    now,
    \* ---- observation of the MarketDataManager calls
    md_log,             \* the last call
    invalidated,        \* symbols invalidated and not fetched since
    \* ---- AccountMonitor (mt5/account_monitor.py)
    mon_monitoring,     \* _monitoring
    mon_thread,         \* the monitor thread: "none" or "alive"
    mon_last_snapshot,  \* _last_snapshot
    mon_callbacks,      \* the local variable `callbacks` of _monitor_loop
    mon_on_changed,     \* number of callbacks in _on_account_changed
    mon_on_disconnected,\* number of callbacks in _on_disconnected
    mon_last_read,      \* the last snapshot a poll could read (observation)
    mon_log,            \* observation of the last poll
    \* ---- AnalysisEngine (analysis/engine.py); its manager's cache is
    \*      data_cache
    eng_pc,             \* position of the engine thread
    stop_event,         \* _stop_event
    loop_running,       \* _loop is not None and _loop.is_running()
    stop_scheduled,     \* loop.stop is queued on the engine's loop
    eng_args,           \* symbol, timeframe, update_cb of the accepted start()
    last_full_refresh,  \* _last_full_refresh
    eng_cached,         \* local `cached` of the iteration
    need_full,          \* local `need_full` of the iteration
    eng_fetched,        \* what the offloaded get_candles returned
    eng_first,          \* no iteration of this run has begun yet
    eng_log,            \* observation: fetches and callbacks
    \* ---- ui/webapp.py: the WebSocket manager and the main event loop
    main_loop,          \* MAIN_LOOP is set and running
    ws_state,           \* each WebSocket: "new", "open" or "closed"
    active,             \* ws_mgr.active
    scheduled,          \* broadcasts handed to the main loop, not yet started
    tasks,              \* each broadcast coroutine's locals
    pending,            \* per socket, the broadcasts awaiting send_text on it
    delivered,          \* observation: per socket, the updates sent to it
    bus_next,           \* the number of the engine's next update
    \* ---- analysis/confluence_engine.py, multi_timeframe_orchestrator.py
    cf_log,             \* the last confluence-engine call: inputs and result
    mtf_log,            \* the last orchestrator call: inputs and result
    \* ---- core/error_handlers.py: one call of a retry_on_disconnect wrapper
    retry_pc,           \* "idle", "attempt", "sleep", "returned", "raised"
    retry_attempt,      \* the loop variable `attempt`
    retry_delay,        \* current_delay
    retry_log,          \* observation: attempts made, waits slept, last error
    \* ---- safety/trading_blocker.py and the MetaTrader5 bridge
    bridge_calls,       \* observation: the bridge functions called, in order
    tb_log,             \* the last TradingBlocker call: name and outcome
    \* ---- mt5/symbols.py: SymbolManager
    symbol_cache,       \* the keys of _symbol_cache
    on_new_symbols,     \* how many callbacks are in _on_new_symbols
    on_removed_symbols, \* how many callbacks are in _on_removed_symbols
    sym_log,            \* the last refresh(): bridge outcome and effects
    \* ---- analysis/forex: sessions.py and analyzer.py
    ses_log,            \* the last session_name call: time and tag
    fx_log,             \* the last ForexAnalyzer.analyze call: input and result
    \* ---- mt5/connector.py: direct calls of detect_session_change
    conn_log,           \* the last call and the one before it
    \* ---- core/lifecycle.py: direct calls on the LifecycleManager
    lc_callbacks,       \* how many callbacks are in _on_state_change_callbacks
    lc_log              \* the last transition_to call and its outcome

appVars == <<mt5_account, session_account, session_server, session_id,
             app_pc, lifecycle_state, last_session_id, app_log>>

cacheVars == <<data_cache, md_log, invalidated>>

monVars == <<mon_monitoring, mon_thread, mon_last_snapshot, mon_callbacks,
             mon_on_changed, mon_on_disconnected, mon_last_read, mon_log>>

engVars == <<eng_pc, stop_event, loop_running, stop_scheduled, eng_args,
             last_full_refresh, eng_cached, need_full, eng_fetched, eng_first,
             eng_log>>

busVars == <<main_loop, ws_state, active, scheduled, tasks, pending, delivered,
             bus_next>>

anaVars == <<cf_log, mtf_log>>

retryVars == <<retry_pc, retry_attempt, retry_delay, retry_log>>

coreVars == <<appVars, cacheVars, now, monVars, engVars, busVars, anaVars,
              retryVars>>

safeVars == <<bridge_calls, tb_log>>

symVars == <<symbol_cache, on_new_symbols, on_removed_symbols, sym_log>>

pureVars == <<ses_log, fx_log>>

connVars == <<conn_log>>

lcVars == <<lc_callbacks, lc_log>>

svcVars == <<safeVars, symVars, pureVars, connVars, lcVars>>

vars == <<coreVars, svcVars>>

-----------------------------------------------------------------------------
(* Values                                                                  *)

Logins  == {1, 2}
Servers == {"S1", "S2"}

\* Python's None for an account, a login, a server and a session id.
NoAccount == [login |-> 0, server |-> "None"]
NoLogin   == 0
NoServer  == "None"
NoSession == <<0, "None">>

Accounts == [login : Logins, server : Servers]

Symbols    == {"EURUSD", "BOOM500"}
Timeframes == {"M15", "H1"}

-----------------------------------------------------------------------------
(* core/lifecycle.py                                                       *)

AppStates == {"initializing", "running", "paused", "shutting_down",
              "shutdown", "error"}

valid_transitions(old) ==
    CASE old = "initializing"  -> {"running", "error", "shutdown"}
      [] old = "running"       -> {"paused", "shutting_down", "error"}
      [] old = "paused"        -> {"running", "shutting_down", "error"}
      [] old = "shutting_down" -> {"shutdown", "error"}
      [] old = "shutdown"      -> {}
      [] old = "error"         -> {"shutdown", "initializing"}

\* A transition_to that accepts every state.
transition_to_unchecked(old, new) == new

\* transition_to(new_state): the state after the call.
transition_to(old, new) ==
    IF new \in valid_transitions(old) THEN new ELSE old

is_running(st) == st = "running"

-----------------------------------------------------------------------------
(* mt5/connector.py                                                        *)

\* f"{current_account}_{current_server}": the login is an integer, so the
\* text up to the first underscore is the login and the rest the server.
FormatSessionId(login, server) == <<login, server>>

\* detect_session_change(): the return value and the tracked session after
\* the call, for the account the bridge reports (NoAccount: unreadable).
detect_session_change(acc, sa, ss, sid) ==
    IF acc = NoAccount
    THEN [ret |-> TRUE, account |-> sa, server |-> ss, id |-> sid]
    ELSE IF sa = NoLogin
    THEN [ret |-> FALSE, account |-> acc.login, server |-> acc.server,
          id |-> FormatSessionId(acc.login, acc.server)]
    ELSE IF acc.login # sa
    THEN [ret |-> TRUE, account |-> acc.login, server |-> ss,
          id |-> FormatSessionId(acc.login, acc.server)]
    ELSE IF acc.server # ss
    THEN [ret |-> TRUE, account |-> sa, server |-> acc.server,
          id |-> FormatSessionId(acc.login, acc.server)]
    ELSE [ret |-> FALSE, account |-> sa, server |-> ss, id |-> sid]

get_session_id(sid) == sid

-----------------------------------------------------------------------------
(* Clock and candles                                                       *)

\* The clock advances in steps of TickMinutes up to MaxMinutes.
TickMinutes == 30
MaxMinutes  == 90

Times == {t \in 0..MaxMinutes : t % TickMinutes = 0}

\* Open/High/Low/Close of a candle.  The first two are sound; the third has
\* its open above its high (High >= Low still holds).
UpBar   == [Open |-> 1, High |-> 2, Low |-> 1, Close |-> 2]
DownBar == [Open |-> 2, High |-> 2, Low |-> 1, Close |-> 1]
BadBar  == [Open |-> 3, High |-> 2, Low |-> 1, Close |-> 1]

SoundBars == {UpBar, DownBar}
AnyBars   == {UpBar, DownBar, BadBar}

Candle(t, b) == [Timestamp |-> t, Open |-> b.Open, High |-> b.High,
                 Low |-> b.Low, Close |-> b.Close]

\* A bridge response holds at most MaxRows rows.
MaxRows == 2

Min2(a, b) == IF a < b THEN a ELSE b
Max2(a, b) == IF a > b THEN a ELSE b

DistinctTimestamps(rows) ==
    \A i, j \in 1..Len(rows) :
        rows[i].Timestamp = rows[j].Timestamp => i = j

\* Rows mt5.copy_rates_from_pos can return at time `at`, bounded to the tail
\* of the history that a positional read ends with: the bar that closed last
\* and the bar that is forming, at most MaxRows rows in any order.  <<>>
\* stands for None / no rows.
RecentTimes(at) == {t \in Times : t <= at /\ at - t <= TickMinutes}

RecentRowsOver(bars, at) ==
    LET C == {Candle(t, b) : t \in RecentTimes(at), b \in bars}
    IN  UNION {[1..n -> C] : n \in 0..MaxRows}

\* What the terminal returns: bars with pairwise distinct open times and
\* sound prices.
RecentTerminalRows(at) ==
    {r \in RecentRowsOver(SoundBars, at) : DistinctTimestamps(r)}

\* Any rows at all for the bar that is forming, repeated open times and
\* unsound prices included.
RecentArbitraryRows(at) ==
    LET C == {Candle(at, b) : b \in AnyBars}
    IN  UNION {[1..n -> C] : n \in 0..MaxRows}

-----------------------------------------------------------------------------
(* pandas operations used on candle frames                                 *)

\* df.sort_values('Timestamp').reset_index(drop=True): insertion of each
\* row after the rows that are not later than it.
RECURSIVE InsertSorted(_, _)
InsertSorted(row, sorted) ==
    IF sorted = <<>> THEN <<row>>
    ELSE IF Head(sorted).Timestamp <= row.Timestamp
         THEN <<Head(sorted)>> \o InsertSorted(row, Tail(sorted))
         ELSE <<row>> \o sorted

RECURSIVE sort_values(_)
sort_values(rows) ==
    IF rows = <<>> THEN <<>>
    ELSE InsertSorted(rows[Len(rows)], sort_values(SubSeq(rows, 1, Len(rows) - 1)))

\* df.drop_duplicates(subset=['Timestamp']): keep='first'.
RECURSIVE drop_duplicates(_)
drop_duplicates(rows) ==
    IF rows = <<>> THEN <<>>
    ELSE LET n    == Len(rows)
             init == SubSeq(rows, 1, n - 1)
             kept == drop_duplicates(init)
         IN  IF \E i \in 1..(n - 1) : rows[i].Timestamp = rows[n].Timestamp
             THEN kept
             ELSE Append(kept, rows[n])

\* pd.concat([a, b]); a None argument is dropped.
concat(a, b) == a \o b

-----------------------------------------------------------------------------
(* mt5/market_data.py                                                      *)

TIMEFRAME_MAP == {"M1", "M5", "M15", "M30", "H1", "H4", "D1", "W1", "MN1"}

TIMEFRAME_MINUTES(tf) ==
    CASE tf = "M1" -> 1 [] tf = "M5" -> 5 [] tf = "M15" -> 15
      [] tf = "M30" -> 30 [] tf = "H1" -> 60 [] tf = "H4" -> 240
      [] tf = "D1" -> 1440 [] tf = "W1" -> 10080 [] tf = "MN1" -> 43200
      [] OTHER -> 60

\* An entry of _data_cache[symbol][timeframe]; Missing: no such key.
Missing == [present |-> FALSE, data |-> <<>>]
Entry(df) == [present |-> TRUE, data |-> df]

EmptyCache == [s \in Symbols |-> [tf \in Timeframes |-> Missing]]

\* CacheEntry.is_stale(current_time, timeframe_minutes), for the last candle
\* time of a window: (now - last) > 1.5 * minutes.
is_stale(window, current_time, timeframe_minutes) ==
    IF window = <<>> THEN TRUE
    ELSE 2 * (current_time - window[Len(window)].Timestamp) > 3 * timeframe_minutes

\* The get_candles that the class ends up with (the later definition of the
\* name): always asks the bridge; `rows` is what the bridge returned.
get_candles(cache, symbol, timeframe, rows) ==
    IF timeframe \notin TIMEFRAME_MAP
    THEN [cache |-> cache, ret |-> <<>>, bridge |-> FALSE]
    ELSE IF rows = <<>>
    THEN [cache |-> cache, ret |-> <<>>, bridge |-> TRUE]
    ELSE LET df == sort_values(rows)
         IN  [cache |-> [cache EXCEPT ![symbol][timeframe] = Entry(df)],
              ret |-> df, bridge |-> TRUE]

\* get_cached_data(symbol, timeframe): the entry, Missing standing for None.
get_cached_data(cache, symbol, timeframe) == cache[symbol][timeframe]

\* clear_cache(symbol) of the later definition; symbol "" is None.
clear_cache(cache, symbol) ==
    IF symbol # ""
    THEN [cache EXCEPT ![symbol] = [tf \in Timeframes |-> Missing]]
    ELSE EmptyCache

\* Mutant: drops a single timeframe of the symbol instead of the symbol.
invalidate_symbol_cache_one_timeframe(cache, symbol) ==
    [cache EXCEPT ![symbol]["M15"] = Missing]

invalidate_symbol_cache(cache, symbol) ==
    [cache EXCEPT ![symbol] = [tf \in Timeframes |-> Missing]]

invalidate_all_cache(cache) == EmptyCache

-----------------------------------------------------------------------------
(* core/app.py                                                             *)

\* config/settings.py, ROBUSTNESS_CONFIG
session_change_detection_enabled    == TRUE
auto_reinitialize_on_session_change == TRUE

\* The methods class SymbolManager defines (mt5/symbols.py); calling any
\* other name on it raises AttributeError.
SymbolManagerMethods ==
    {"get_all_symbols", "categorize_symbols", "get_symbol_info",
     "get_category_symbols", "register_symbols_refreshed_callback",
     "register_new_symbols_callback", "register_removed_symbols_callback",
     "refresh", "get_last_refresh_time", "symbol_exists"}

\* The name check_session_integrity calls on the symbol manager.
RefreshCall == "refresh_symbols"

\* StrelitziaApp.initialize(): its return value and what it leaves behind.
\* `c` carries account, server, id (the connector), last_sid and lifecycle.
initialize(acc, c) ==
    IF acc = NoAccount
    THEN [c EXCEPT !.ret = FALSE]
    ELSE LET d == IF session_change_detection_enabled
                  THEN detect_session_change(acc, c.account, c.server, c.id)
                  ELSE [ret |-> FALSE, account |-> c.account,
                        server |-> c.server, id |-> c.id]
         IN  [c EXCEPT !.ret = TRUE,
                       !.account = d.account, !.server = d.server, !.id = d.id,
                       !.last_sid = IF session_change_detection_enabled
                                    THEN get_session_id(d.id) ELSE c.last_sid,
                       !.lifecycle = transition_to(c.lifecycle, "running")]

\* StrelitziaApp.check_session_integrity(): return value, the connector,
\* the cache, _last_session_id and the lifecycle after the call.
check_session_integrity(acc, c) ==
    IF ~session_change_detection_enabled THEN [c EXCEPT !.ret = TRUE]
    ELSE LET d  == detect_session_change(acc, c.account, c.server, c.id)
             c1 == [c EXCEPT !.account = d.account, !.server = d.server,
                             !.id = d.id, !.changed = d.ret]
         IN  IF ~d.ret THEN [c1 EXCEPT !.ret = TRUE]
             ELSE IF ~auto_reinitialize_on_session_change
             THEN [c1 EXCEPT !.ret = FALSE]
             ELSE LET c2 == [c1 EXCEPT !.cache = invalidate_all_cache(c.cache)]
                  IN  IF RefreshCall \notin SymbolManagerMethods
                      THEN \* AttributeError, caught by `except Exception`
                           [c2 EXCEPT !.ret = FALSE]
                      ELSE initialize(acc, [c2 EXCEPT !.last_sid = get_session_id(d.id)])

\* StrelitziaApp.shutdown(): the lifecycle after its two transitions.
shutdown(st) == transition_to(transition_to(st, "shutting_down"), "shutdown")

AppCtx == [ret |-> FALSE, changed |-> FALSE,
           account |-> session_account, server |-> session_server,
           id |-> session_id, cache |-> data_cache,
           last_sid |-> last_session_id, lifecycle |-> lifecycle_state]

NoAppLog == [op |-> "none", readable |-> FALSE, changed |-> FALSE,
             result |-> FALSE, sid_before |-> NoSession,
             sid_after |-> NoSession, flushed |-> FALSE]

\* run(): initialize(), and shutdown() when it fails.
AppRun ==
    /\ app_pc = "start"
    /\ LET r == initialize(mt5_account, AppCtx)
       IN  /\ session_account' = r.account
           /\ session_server' = r.server
           /\ session_id' = r.id
           /\ last_session_id' = r.last_sid
           /\ app_log' = [NoAppLog EXCEPT !.op = "initialize",
                              !.readable = (mt5_account # NoAccount),
                              !.result = r.ret,
                              !.sid_before = session_id, !.sid_after = r.id]
           /\ IF r.ret
              THEN /\ lifecycle_state' = r.lifecycle
                   /\ app_pc' = "menu"
                   /\ data_cache' = data_cache
              ELSE \* shutdown() in the branch and again in `finally`
                   /\ lifecycle_state' = shutdown(shutdown(r.lifecycle))
                   /\ app_pc' = "done"
                   /\ data_cache' = clear_cache(data_cache, "")
    /\ UNCHANGED <<mt5_account, md_log, invalidated, now, monVars, engVars, busVars, anaVars, retryVars, svcVars>>

\* main_menu(): the loop test and the periodic session integrity check.
AppCheckSession ==
    /\ app_pc = "menu"
    /\ IF ~is_running(lifecycle_state)
       THEN /\ lifecycle_state' = shutdown(lifecycle_state)
            /\ data_cache' = clear_cache(data_cache, "")
            /\ app_pc' = "done"
            /\ UNCHANGED <<session_account, session_server, session_id,
                           last_session_id, app_log>>
       ELSE LET r == check_session_integrity(mt5_account, AppCtx)
            IN  /\ session_account' = r.account
                /\ session_server' = r.server
                /\ session_id' = r.id
                /\ last_session_id' = r.last_sid
                /\ app_log' = [op |-> "check",
                               readable |-> (mt5_account # NoAccount),
                               changed |-> r.changed, result |-> r.ret,
                               sid_before |-> session_id, sid_after |-> r.id,
                               flushed |-> (r.cache = EmptyCache)]
                /\ IF r.ret
                   THEN /\ lifecycle_state' = r.lifecycle
                        /\ data_cache' = r.cache
                        /\ app_pc' = "select"
                   ELSE \* break, then run()'s `finally: self.shutdown()`
                        /\ lifecycle_state' = shutdown(r.lifecycle)
                        /\ data_cache' = clear_cache(r.cache, "")
                        /\ app_pc' = "done"
    /\ UNCHANGED <<mt5_account, md_log, invalidated, now, monVars, engVars, busVars, anaVars, retryVars, svcVars>>

\* analyze_symbols() for one selected symbol and timeframe: get_candles
\* caches what the bridge returns; the user then continues.
AppAnalyze(s, tf, rows) ==
    /\ app_pc = "select"
    /\ data_cache' = get_candles(data_cache, s, tf, rows).cache
    /\ app_pc' = "menu"
    /\ UNCHANGED <<mt5_account, session_account, session_server, session_id,
                   lifecycle_state, last_session_id, app_log, md_log,
                   invalidated, now, monVars, engVars, busVars, anaVars, retryVars, svcVars>>

\* The user leaves the menu: break, then shutdown().
AppQuit ==
    /\ app_pc = "select"
    /\ lifecycle_state' = shutdown(lifecycle_state)
    /\ data_cache' = clear_cache(data_cache, "")
    /\ app_pc' = "done"
    /\ UNCHANGED <<mt5_account, session_account, session_server, session_id,
                   last_session_id, app_log, md_log, invalidated, now,
                   monVars, engVars, busVars, anaVars, retryVars, svcVars>>

\* The terminal logs in to another account or server, or loses the account.
TerminalSwitch(a) ==
    /\ app_pc # "done"
    /\ a # mt5_account
    /\ mt5_account' = a
    /\ UNCHANGED <<session_account, session_server, session_id, app_pc,
                   lifecycle_state, last_session_id, data_cache, app_log,
                   md_log, invalidated, now, monVars, engVars, busVars, anaVars, retryVars, svcVars>>

-----------------------------------------------------------------------------
(* Calls on a MarketDataManager, and the clock                             *)

\* A timeframe string the manager does not know.
UnknownTimeframe == "M2"

\* The bar that is forming at time `at`, or no rows.
CurrentBarRows(at) == {<<>>, <<Candle(at, UpBar)>>}

NoMdLog == [op |-> "none", fresh |-> FALSE, bridge |-> FALSE,
            had_data |-> FALSE, symbol |-> ""]

HasData(cache, s) == \E tf \in Timeframes : cache[s][tf].present

\* get_candles(symbol, timeframe, count) by any caller.
MdGetCandles(s, tf, rows) ==
    LET r == get_candles(data_cache, s, tf, rows)
    IN  /\ data_cache' = r.cache
        /\ md_log' = [op |-> "get_candles",
                      fresh |-> /\ tf \in Timeframes
                                /\ data_cache[s][tf].present
                                /\ ~is_stale(data_cache[s][tf].data, now,
                                             TIMEFRAME_MINUTES(tf)),
                      bridge |-> r.bridge,
                      had_data |-> HasData(data_cache, s),
                      symbol |-> s]
        /\ invalidated' = IF r.ret # <<>> THEN invalidated \ {s} ELSE invalidated
        /\ UNCHANGED <<appVars, now, monVars, engVars, busVars, anaVars, retryVars, svcVars>>

MdInvalidateSymbol(s) ==
    /\ data_cache' = invalidate_symbol_cache(data_cache, s)
    /\ md_log' = [NoMdLog EXCEPT !.op = "invalidate_symbol_cache",
                                 !.had_data = HasData(data_cache, s),
                                 !.symbol = s]
    /\ invalidated' = invalidated \cup {s}
    /\ UNCHANGED <<appVars, now, monVars, engVars, busVars, anaVars, retryVars, svcVars>>

MdInvalidateAll ==
    /\ data_cache' = invalidate_all_cache(data_cache)
    /\ md_log' = [NoMdLog EXCEPT !.op = "invalidate_all_cache",
                                 !.had_data = \A s \in Symbols : HasData(data_cache, s)]
    /\ invalidated' = Symbols
    /\ UNCHANGED <<appVars, now, monVars, engVars, busVars, anaVars, retryVars, svcVars>>

\* clear_cache(symbol); "" is clear_cache() without a symbol.
MdClearCache(s) ==
    /\ data_cache' = clear_cache(data_cache, s)
    /\ md_log' = [NoMdLog EXCEPT !.op = "clear_cache",
                                 !.had_data = IF s = "" THEN \A x \in Symbols : HasData(data_cache, x)
                                              ELSE HasData(data_cache, s),
                                 !.symbol = s]
    /\ invalidated' = IF s = "" THEN Symbols ELSE invalidated \cup {s}
    /\ UNCHANGED <<appVars, now, monVars, engVars, busVars, anaVars, retryVars, svcVars>>

Tick ==
    /\ now + TickMinutes <= MaxMinutes
    /\ now' = now + TickMinutes
    /\ UNCHANGED <<appVars, cacheVars, monVars, engVars, busVars, anaVars, retryVars, svcVars>>

-----------------------------------------------------------------------------
(* mt5/account_monitor.py                                                  *)

Companies == {"B1", "B2"}
Balances  == {100, 200}

\* An AccountSnapshot: the identity triple and the balance.
Snapshots == [login : Logins, server : Servers, company : Companies,
              balance : Balances]

\* _capture_snapshot() returning None.
NoSnapshot == [login |-> 0, server |-> "None", company |-> "None", balance |-> 0]

\* AccountSnapshot.is_same_account(other)
is_same_account(self, other) ==
    IF other = NoSnapshot THEN FALSE
    ELSE /\ self.login = other.login
         /\ self.server = other.server
         /\ self.company = other.company

\* The symbols and timeframes the engine is started with.
EngineSymbols    == {"EURUSD"}
EngineTimeframes == {"H1"}

\* At most MaxCallbacks callbacks are registered on each list.
MaxCallbacks == 2

\* `callbacks` before its first assignment in a run of _monitor_loop.
Unbound == [kind |-> "unbound", n |-> 0]

NoMonLog == [op |-> "none", changed_calls |-> 0, disconnected_calls |-> 0,
             old |-> NoSnapshot, new |-> NoSnapshot, prev_read |-> NoSnapshot,
             registered |-> 0, had_snapshot |-> FALSE,
             registered_disconnected |-> 0]

\* One pass of the loop of _monitor_loop for what _capture_snapshot()
\* returned: the fields it leaves behind and the callbacks it invoked.
monitor_pass(snapshot, last, callbacks, n_changed, n_disconnected) ==
    IF snapshot = NoSnapshot
    THEN LET cbs == IF last # NoSnapshot
                    THEN [kind |-> "disconnected", n |-> n_disconnected]
                    ELSE callbacks
         IN  [last |-> NoSnapshot, callbacks |-> cbs,
              \* `for callback in callbacks: callback()`; an unbound name
              \* raises and is logged by the outer handler, a two-argument
              \* callback called without arguments raises and is logged
              op |-> IF cbs.kind = "unbound" THEN "error" ELSE "unreadable",
              changed_calls |-> 0,
              disconnected_calls |-> IF cbs.kind = "disconnected" THEN cbs.n ELSE 0,
              old |-> NoSnapshot]
    ELSE LET account_changed == \/ last = NoSnapshot
                                \/ ~is_same_account(snapshot, last)
             cbs == IF account_changed
                    THEN [kind |-> "changed", n |-> n_changed]
                    ELSE [kind |-> "empty", n |-> 0]
         IN  [last |-> snapshot, callbacks |-> cbs, op |-> "read",
              changed_calls |-> IF account_changed /\ last # NoSnapshot
                                THEN cbs.n ELSE 0,
              disconnected_calls |-> 0,
              old |-> last]

\* start()
MonStart ==
    /\ ~mon_monitoring
    /\ mon_thread = "none"
    /\ mon_monitoring' = TRUE
    /\ mon_thread' = "alive"
    /\ mon_callbacks' = Unbound
    /\ UNCHANGED <<mon_last_snapshot, mon_on_changed, mon_on_disconnected,
                   mon_last_read, mon_log, appVars, cacheVars, now, engVars, busVars, anaVars, retryVars, svcVars>>

\* stop()
MonStop ==
    /\ mon_monitoring
    /\ mon_monitoring' = FALSE
    /\ UNCHANGED <<mon_thread, mon_last_snapshot, mon_callbacks, mon_on_changed,
                   mon_on_disconnected, mon_last_read, mon_log,
                   appVars, cacheVars, now, engVars, busVars, anaVars, retryVars, svcVars>>

\* The loop finds _monitoring false and the thread ends.
MonExit ==
    /\ mon_thread = "alive"
    /\ ~mon_monitoring
    /\ mon_thread' = "none"
    /\ UNCHANGED <<mon_monitoring, mon_last_snapshot, mon_callbacks,
                   mon_on_changed, mon_on_disconnected, mon_last_read, mon_log,
                   appVars, cacheVars, now, engVars, busVars, anaVars, retryVars, svcVars>>

\* One pass of the loop while monitoring.
MonPoll(snapshot) ==
    /\ mon_thread = "alive"
    /\ mon_monitoring
    /\ LET r == monitor_pass(snapshot, mon_last_snapshot, mon_callbacks,
                             mon_on_changed, mon_on_disconnected)
       IN  /\ mon_last_snapshot' = r.last
           /\ mon_callbacks' = r.callbacks
           /\ mon_log' = [op |-> r.op, changed_calls |-> r.changed_calls,
                          disconnected_calls |-> r.disconnected_calls,
                          old |-> r.old, new |-> snapshot,
                          prev_read |-> mon_last_read,
                          registered |-> mon_on_changed,
                          had_snapshot |-> mon_last_snapshot # NoSnapshot,
                          registered_disconnected |-> mon_on_disconnected]
    /\ mon_last_read' = IF snapshot # NoSnapshot THEN snapshot ELSE mon_last_read
    /\ UNCHANGED <<mon_monitoring, mon_thread, mon_on_changed,
                   mon_on_disconnected, appVars, cacheVars, now, engVars, busVars, anaVars, retryVars, svcVars>>

\* register_account_changed_callback(callback)
MonRegisterChanged ==
    /\ mon_on_changed < MaxCallbacks
    /\ mon_on_changed' = mon_on_changed + 1
    /\ UNCHANGED <<mon_monitoring, mon_thread, mon_last_snapshot, mon_callbacks,
                   mon_on_disconnected, mon_last_read, mon_log,
                   appVars, cacheVars, now, engVars, busVars, anaVars, retryVars, svcVars>>

\* register_disconnected_callback(callback)
MonRegisterDisconnected ==
    /\ mon_on_disconnected < MaxCallbacks
    /\ mon_on_disconnected' = mon_on_disconnected + 1
    /\ UNCHANGED <<mon_monitoring, mon_thread, mon_last_snapshot, mon_callbacks,
                   mon_on_changed, mon_last_read, mon_log,
                   appVars, cacheVars, now, engVars, busVars, anaVars, retryVars, svcVars>>

-----------------------------------------------------------------------------
(* analysis/engine.py                                                      *)

\* __init__: self._full_refresh_minutes
full_refresh_minutes == 60

\* datetime None
NoTime == -1

\* Lines 112-117: need_full for the cached entry and the refresh clock.
decide_need_full(cached, last_full, at) ==
    IF ~cached.present \/ Len(cached.data) = 0 THEN TRUE
    ELSE \/ last_full = NoTime
         \/ (at - last_full) * 60 > full_refresh_minutes * 60

\* A merge that keeps every row of both frames.
merge_recent_keep_all(cached, recent) == sort_values(concat(cached, recent))

\* Line 128: pd.concat([cached, recent]).drop_duplicates(subset=['Timestamp'])
\*           .sort_values('Timestamp').reset_index(drop=True)
merge_recent(cached, recent) ==
    sort_values(drop_duplicates(concat(cached, recent)))

\* A loop test that does not look at the stop event.
loop_continues_forever(stop) == TRUE

\* The test of `while not self._stop_event.is_set()`.
loop_continues(stop) == ~stop

NoArgs == [symbol |-> "", timeframe |-> "", update_cb |-> FALSE,
           poll_interval |-> 0]

\* start(): poll_interval: int = 30
default_poll_interval == 30

\* An error sleep as long as the ordinary one.
error_sleep_as_poll(poll_interval) == poll_interval

\* Line 177: asyncio.sleep(max(5, poll_interval)) after an iteration error.
error_sleep(poll_interval) == Max2(5, poll_interval)

\* Observation of the engine: the last step, whether the iteration in flight
\* is the first of its run, when a full fetch last returned data and whether
\* the iteration began more than the refresh interval after that, whether the
\* loop test of the iteration saw the stop event set, and callbacks.
NoEngLog == [op |-> "none", first |-> FALSE, last_full_ok |-> NoTime,
             overdue_ok |-> FALSE, iter_began_stopped |-> FALSE,
             called_back |-> FALSE, callback_in_stopped_iter |-> FALSE,
             callbacks |-> 0, callback_raised |-> FALSE, sleep_for |-> 0,
             requested |-> NoArgs, ignored |-> FALSE, threads |-> 0]

EngAlive == eng_pc # "idle"

\* A start() that never finds a running thread.
already_running_never(pc) == FALSE

\* Line 49: self._thread and self._thread.is_alive()
already_running(pc) == pc # "idle"

\* start(symbol, timeframe, poll_interval=..., update_cb=...): a no-op while
\* the thread is alive.
EngStartPoll(s, tf, cb, poll_interval) ==
    /\ ~already_running(eng_pc)
    /\ stop_event' = FALSE
    /\ eng_args' = [symbol |-> s, timeframe |-> tf, update_cb |-> cb,
                    poll_interval |-> poll_interval]
    /\ eng_pc' = "boot"
    /\ eng_first' = TRUE
    /\ eng_log' = [eng_log EXCEPT
           !.op = "start",
           !.iter_began_stopped = FALSE,
           !.callback_in_stopped_iter = FALSE,
           !.requested = [symbol |-> s, timeframe |-> tf, update_cb |-> cb,
                          poll_interval |-> poll_interval],
           !.ignored = FALSE,
           !.threads = @ + 1]
    /\ UNCHANGED <<loop_running, stop_scheduled, last_full_refresh, eng_cached,
                   need_full, eng_fetched, appVars, cacheVars, monVars, now, busVars, anaVars, retryVars, svcVars>>

\* start() with the default poll_interval.
EngStart(s, tf, cb) == EngStartPoll(s, tf, cb, default_poll_interval)

\* start() while the thread is alive: logs and returns.
EngStartIgnored ==
    /\ already_running(eng_pc)
    /\ UNCHANGED vars

\* The same call, observed: what was asked for and that it was ignored.
EngStartWhileAlive(s, tf, cb) ==
    /\ already_running(eng_pc)
    /\ eng_log' = [eng_log EXCEPT
           !.requested = [symbol |-> s, timeframe |-> tf, update_cb |-> cb,
                          poll_interval |-> default_poll_interval],
           !.ignored = TRUE]
    /\ UNCHANGED <<eng_pc, stop_event, loop_running, stop_scheduled, eng_args,
                   last_full_refresh, eng_cached, need_full, eng_fetched,
                   eng_first, appVars, cacheVars, monVars, now, busVars,
                   anaVars, retryVars, svcVars>>

\* stop(): set the event, and queue loop.stop if the loop is running.
EngStop ==
    /\ stop_event' = TRUE
    /\ stop_scheduled' = (stop_scheduled \/ loop_running)
    /\ UNCHANGED <<eng_pc, loop_running, eng_args, last_full_refresh, eng_cached,
                   need_full, eng_fetched, eng_first, eng_log,
                   appVars, cacheVars, monVars, now, busVars, anaVars, retryVars, svcVars>>

\* _run_loop: the thread creates its loop and enters run_until_complete.
EngRunLoop ==
    /\ eng_pc = "boot"
    /\ loop_running' = TRUE
    /\ eng_pc' = "while"
    /\ UNCHANGED <<stop_event, stop_scheduled, eng_args, last_full_refresh,
                   eng_cached, need_full, eng_fetched, eng_first, eng_log,
                   appVars, cacheVars, monVars, now, busVars, anaVars, retryVars, svcVars>>

\* The thread leaves run_until_complete and closes its loop.
EngThreadEnds ==
    /\ eng_pc' = "idle"
    /\ loop_running' = FALSE
    /\ stop_scheduled' = FALSE
    /\ eng_cached' = Missing
    /\ need_full' = FALSE
    /\ eng_fetched' = <<>>
    /\ eng_log' = [eng_log EXCEPT !.threads = @ - 1]

\* The queued loop.stop runs: run_until_complete raises 'Event loop stopped
\* before Future completed', the coroutine is abandoned where it waits.
EngLoopStopped ==
    /\ loop_running
    /\ stop_scheduled
    /\ EngThreadEnds
    /\ UNCHANGED <<stop_event, eng_args, last_full_refresh, eng_first,
                   appVars, cacheVars, monVars, now, busVars, anaVars, retryVars, svcVars>>

\* Lines 89-120/125: the loop test; then the iteration reads the cache,
\* decides need_full and offloads get_candles.
EngIterate ==
    /\ eng_pc = "while"
    /\ IF ~loop_continues(stop_event)
       THEN /\ EngThreadEnds
            /\ UNCHANGED eng_first
       ELSE LET cached == get_cached_data(data_cache, eng_args.symbol,
                                          eng_args.timeframe)
                full   == decide_need_full(cached, last_full_refresh, now)
            IN  /\ eng_cached' = cached
                /\ need_full' = full
                /\ eng_fetched' = <<>>
                /\ eng_first' = FALSE
                /\ eng_log' = [eng_log EXCEPT
                       !.op = "fetching",
                       !.first = eng_first,
                       !.overdue_ok =
                           /\ eng_log.last_full_ok # NoTime
                           /\ now - eng_log.last_full_ok > full_refresh_minutes,
                       !.iter_began_stopped = stop_event]
                /\ eng_pc' = "fetch"
                /\ UNCHANGED <<loop_running, stop_scheduled>>
    /\ UNCHANGED <<stop_event, eng_args, last_full_refresh,
                   appVars, cacheVars, monVars, now, busVars, anaVars, retryVars, svcVars>>

\* The executor thread runs get_candles; `rows` is what the bridge returns.
EngFetch(rows) ==
    /\ eng_pc = "fetch"
    /\ LET r == get_candles(data_cache, eng_args.symbol, eng_args.timeframe, rows)
       IN  /\ data_cache' = r.cache
           /\ eng_fetched' = r.ret
           /\ invalidated' = IF r.ret # <<>> THEN invalidated \ {eng_args.symbol}
                             ELSE invalidated
    /\ eng_pc' = "fetched"
    /\ UNCHANGED <<stop_event, loop_running, stop_scheduled, eng_args,
                   last_full_refresh, eng_cached, need_full, eng_first, eng_log,
                   md_log, appVars, monVars, now, busVars, anaVars, retryVars, svcVars>>

\* Lines 119-148: the coroutine resumes with the result, stamps a full
\* refresh or merges a top-up into the cache, and offloads the analysis.
EngMerge ==
    /\ eng_pc = "fetched"
    /\ IF need_full
       THEN /\ last_full_refresh' = now
            /\ eng_log' = [eng_log EXCEPT !.op = "full",
                              !.last_full_ok = IF eng_fetched # <<>> THEN now
                                               ELSE eng_log.last_full_ok]
            /\ UNCHANGED data_cache
       ELSE /\ data_cache' = [data_cache EXCEPT
                   ![eng_args.symbol][eng_args.timeframe] =
                       Entry(merge_recent(eng_cached.data, eng_fetched))]
            /\ eng_log' = [eng_log EXCEPT !.op = "topup"]
            /\ UNCHANGED last_full_refresh
    /\ eng_pc' = "analyze"
    /\ UNCHANGED <<stop_event, loop_running, stop_scheduled, eng_args,
                   eng_cached, need_full, eng_fetched, eng_first,
                   md_log, invalidated, appVars, monVars, now, busVars, anaVars, retryVars, svcVars>>

\* Lines 148-177: the analysis returns or raises; on a result the callback
\* is invoked (its own exception is logged); then the coroutine sleeps.
EngAnalyzedThen(ok, cb_raises) ==
    /\ eng_pc = "analyze"
    /\ eng_log' = [eng_log EXCEPT
           !.op = IF ok THEN "analyzed" ELSE "error",
           !.called_back = (ok /\ eng_args.update_cb),
           !.callback_in_stopped_iter =
               \/ eng_log.callback_in_stopped_iter
               \/ (ok /\ eng_args.update_cb /\ eng_log.iter_began_stopped),
           !.callbacks = IF ok /\ eng_args.update_cb THEN 1 ELSE 0,
           !.callback_raised = (ok /\ eng_args.update_cb /\ cb_raises),
           !.sleep_for = IF ok THEN eng_args.poll_interval
                         ELSE error_sleep(eng_args.poll_interval)]
    /\ eng_pc' = "sleep"
    /\ eng_cached' = Missing
    /\ eng_fetched' = <<>>
    /\ UNCHANGED <<stop_event, loop_running, stop_scheduled, eng_args,
                   last_full_refresh, need_full, eng_first,
                   appVars, cacheVars, monVars, now, busVars, anaVars, retryVars, svcVars>>

\* The analysis returned or raised, with a callback that returns.
EngAnalyzed(ok) == EngAnalyzedThen(ok, FALSE)

\* Lines 166-170: the analysis returned and update_cb raised.
EngCallbackRaises ==
    /\ eng_args.update_cb
    /\ EngAnalyzedThen(TRUE, TRUE)

\* asyncio.sleep(poll_interval) or sleep(max(5, poll_interval)) is over.
EngWake ==
    /\ eng_pc = "sleep"
    /\ eng_pc' = "while"
    /\ eng_log' = [eng_log EXCEPT !.sleep_for = 0]
    /\ UNCHANGED <<stop_event, loop_running, stop_scheduled, eng_args,
                   last_full_refresh, eng_cached, need_full, eng_fetched,
                   eng_first, appVars, cacheVars, monVars, now, busVars, anaVars, retryVars, svcVars>>

-----------------------------------------------------------------------------
(* ui/webapp.py                                                            *)

Sockets == {"ws1", "ws2"}

\* The engine hands at most MaxUpdates updates to the callback.
MaxUpdates == 2

Updates == 1..MaxUpdates

\* A broadcast coroutine: `at` is its position in its copy of the active
\* list (0 before it starts, past the end when it is over).
NoTask == [snapshot |-> <<>>, at |-> 0, dead |-> {}]

\* self.active.remove(ws), for every ws of `gone` that is in the list.
RECURSIVE Without(_, _)
Without(seq, gone) ==
    IF seq = <<>> THEN <<>>
    ELSE IF Head(seq) \in gone THEN Without(Tail(seq), gone)
    ELSE <<Head(seq)>> \o Without(Tail(seq), gone)

InSeq(seq, x) == \E i \in 1..Len(seq) : seq[i] = x

\* startup event: MAIN_LOOP = asyncio.get_event_loop(), and the server runs.
BusStartup ==
    /\ ~main_loop
    /\ main_loop' = TRUE
    /\ UNCHANGED <<ws_state, active, scheduled, tasks, pending, delivered,
                   bus_next, appVars, cacheVars, monVars, engVars, now, anaVars, retryVars, svcVars>>

\* /ws: WebSocketManager.connect accepts the socket and appends it.
WsConnect(ws) ==
    /\ main_loop
    /\ ws_state[ws] = "new"
    /\ ws_state' = [ws_state EXCEPT ![ws] = "open"]
    /\ active' = Append(active, ws)
    /\ UNCHANGED <<main_loop, scheduled, tasks, pending, delivered, bus_next,
                   appVars, cacheVars, monVars, engVars, now, anaVars, retryVars, svcVars>>

\* /ws: the peer goes away; the endpoint calls WebSocketManager.disconnect.
WsDisconnect(ws) ==
    /\ ws_state[ws] = "open"
    /\ ws_state' = [ws_state EXCEPT ![ws] = "closed"]
    /\ active' = Without(active, {ws})
    /\ UNCHANGED <<main_loop, scheduled, tasks, pending, delivered, bus_next,
                   appVars, cacheVars, monVars, engVars, now, anaVars, retryVars, svcVars>>

\* _cb(result) on the engine thread: with the main loop running the
\* broadcast is scheduled on it; otherwise asyncio.run(broadcast) runs it to
\* completion on the engine thread.
BusCallback ==
    /\ bus_next <= MaxUpdates
    /\ bus_next' = bus_next + 1
    /\ IF main_loop
       THEN /\ scheduled' = Append(scheduled, bus_next)
            /\ UNCHANGED delivered
       ELSE /\ delivered' = [ws \in Sockets |->
                                IF InSeq(active, ws)
                                THEN Append(delivered[ws], bus_next)
                                ELSE delivered[ws]]
            /\ UNCHANGED scheduled
    /\ UNCHANGED <<main_loop, ws_state, active, tasks, pending,
                   appVars, cacheVars, monVars, engVars, now, anaVars, retryVars, svcVars>>

\* A broadcast moves past position `at`: it awaits send_text on the next
\* socket of its copy, or, past the end, removes the dead sockets.  `waits`
\* is the pending map it leaves behind.
BroadcastAdvance(k, task, waits) ==
    LET nxt == task.at + 1
    IN  /\ tasks' = [tasks EXCEPT ![k] = [task EXCEPT !.at = nxt]]
        /\ IF nxt <= Len(task.snapshot)
           THEN /\ pending' = [waits EXCEPT ![task.snapshot[nxt]] =
                                  Append(waits[task.snapshot[nxt]], k)]
                /\ UNCHANGED active
           ELSE /\ pending' = waits
                /\ active' = Without(active, task.dead)

\* The main loop starts the oldest scheduled broadcast: it copies the active
\* list and runs to its first await.
BroadcastStart ==
    /\ scheduled # <<>>
    /\ scheduled' = Tail(scheduled)
    /\ BroadcastAdvance(Head(scheduled), [NoTask EXCEPT !.snapshot = active],
                        pending)
    /\ UNCHANGED <<main_loop, ws_state, delivered, bus_next,
                   appVars, cacheVars, monVars, engVars, now, anaVars, retryVars, svcVars>>

\* The oldest send_text awaited on ws returns, or raises; a send on a closed
\* socket raises.  The broadcast then runs to its next await or to its end.
SendDone(ws, ok) ==
    /\ pending[ws] # <<>>
    /\ ok => ws_state[ws] = "open"
    /\ LET k == Head(pending[ws])
       IN  /\ delivered' = IF ok
                           THEN [delivered EXCEPT ![ws] = Append(delivered[ws], k)]
                           ELSE delivered
           /\ BroadcastAdvance(k,
                  IF ok THEN tasks[k]
                  ELSE [tasks[k] EXCEPT !.dead = tasks[k].dead \cup {ws}],
                  [pending EXCEPT ![ws] = Tail(pending[ws])])
    /\ UNCHANGED <<main_loop, ws_state, scheduled, bus_next,
                   appVars, cacheVars, monVars, engVars, now, anaVars, retryVars, svcVars>>

-----------------------------------------------------------------------------
(* Exact arithmetic for the scores: a number is <<numerator, denominator>>  *)
(* in lowest terms with a positive denominator.                            *)

Abs(x) == IF x < 0 THEN -x ELSE x

RECURSIVE GCD(_, _)
GCD(a, b) == IF b = 0 THEN a ELSE GCD(b, a % b)

Rat(n, d) ==
    LET g == GCD(Abs(n), Abs(d))
    IN  IF d < 0 THEN <<(-n) \div g, (-d) \div g>> ELSE <<n \div g, d \div g>>

RInt(i)    == <<i, 1>>
RAdd(a, b) == Rat(a[1] * b[2] + b[1] * a[2], a[2] * b[2])
RSub(a, b) == Rat(a[1] * b[2] - b[1] * a[2], a[2] * b[2])
RMul(a, b) == Rat(a[1] * b[1], a[2] * b[2])
RDiv(a, b) == Rat(a[1] * b[2], a[2] * b[1])
RLt(a, b)  == a[1] * b[2] < b[1] * a[2]
RLe(a, b)  == a[1] * b[2] <= b[1] * a[2]
RMin(a, b) == IF RLt(b, a) THEN b ELSE a
RMax(a, b) == IF RLt(a, b) THEN b ELSE a
RAbs(a)    == <<Abs(a[1]), a[2]>>

RECURSIVE RSum(_)
RSum(seq) == IF seq = <<>> THEN RInt(0) ELSE RAdd(Head(seq), RSum(Tail(seq)))

\* statistics.mean of a non-empty list
RMean(seq) == RDiv(RSum(seq), RInt(Len(seq)))

-----------------------------------------------------------------------------
(* analysis/confluence_engine.py                                           *)

SignalTypes == {"bullish", "bearish", "neutral"}

\* SignalCategory members used here, with their values.
Categories == {"STRUCTURE", "CANDLESTICK"}

CategoryValue(category) ==
    CASE category = "STRUCTURE"   -> Rat(100, 100)
      [] category = "CANDLESTICK" -> Rat(40, 100)

\* Signal.get_effective_weight
get_effective_weight(s) == RMul(CategoryValue(s.category), RInt(s.weight))

\* Signal.get_weighted_signal
get_weighted_signal(s) ==
    LET base_value        == IF s.signal_type = "bullish" THEN 100 ELSE -100
        confidence_factor == Rat(s.confidence, 100)
        weight_factor     == get_effective_weight(s)
    IN  RMul(RMul(RInt(base_value), confidence_factor), weight_factor)

\* max(0.0, min(100.0, x))
Clamp100(x) == RMax(RInt(0), RMin(RInt(100), x))

\* A ConfluenceResult that clamps its scores and does not normalize them.
ConfluenceResult_clamped_only(r) ==
    [r EXCEPT !.bullish_score = Clamp100(r.bullish_score),
              !.bearish_score = Clamp100(r.bearish_score),
              !.neutral_probability = Clamp100(r.neutral_probability),
              !.confidence_percentage = Clamp100(r.confidence_percentage)]

\* ConfluenceResult(...) with __post_init__: clamp, then normalize the three
\* scores to sum to 100 when their sum is positive.
ConfluenceResult(r) ==
    LET b     == Clamp100(r.bullish_score)
        e     == Clamp100(r.bearish_score)
        n     == Clamp100(r.neutral_probability)
        c     == Clamp100(r.confidence_percentage)
        total == RAdd(RAdd(b, e), n)
        factor == RDiv(RInt(100), total)
    IN  IF RLt(RInt(0), total)
        THEN [r EXCEPT !.bullish_score = RMul(b, factor),
                       !.bearish_score = RMul(e, factor),
                       !.neutral_probability = RMul(n, factor),
                       !.confidence_percentage = c]
        ELSE [r EXCEPT !.bullish_score = b, !.bearish_score = e,
                       !.neutral_probability = n,
                       !.confidence_percentage = c]

\* Signal impact: confidence * effective weight
Impact(s) == RMul(RInt(s.confidence), get_effective_weight(s))

RECURSIVE Impacts(_)
Impacts(signals) ==
    IF signals = <<>> THEN <<>>
    ELSE <<Impact(Head(signals))>> \o Impacts(Tail(signals))

\* _compute_score
compute_score(signals) ==
    IF signals = <<>> THEN RInt(0) ELSE RMean(Impacts(signals))

\* _compute_neutral
compute_neutral(neutral_signals, total_signals) ==
    IF total_signals = 0 THEN RInt(100)
    ELSE RMin(RInt(50), RMul(Rat(Len(neutral_signals), total_signals), RInt(50)))

RECURSIVE Confidences(_)
Confidences(signals) ==
    IF signals = <<>> THEN <<>>
    ELSE <<RInt(Head(signals).confidence)>> \o Confidences(Tail(signals))

\* _compute_confidence
compute_confidence(signals) ==
    IF signals = <<>> THEN RInt(0)
    ELSE LET avg_confidence == RMean(Confidences(signals))
             signal_count_factor == RMin(RInt(1), Rat(Len(signals), 20))
             categories == {signals[i].category : i \in 1..Len(signals)}
             diversity_factor == RMin(RInt(1), Rat(Cardinality(categories), 8))
             confidence ==
                 RMul(avg_confidence,
                      RAdd(Rat(1, 2),
                           RAdd(RMul(Rat(1, 4), signal_count_factor),
                                RMul(Rat(1, 4), diversity_factor))))
         IN  RMin(RInt(100), confidence)

\* list.sort(key=lambda x: x[1], reverse=True): stable, descending by score.
RECURSIVE InsertFactor(_, _)
InsertFactor(f, sorted) ==
    IF sorted = <<>> THEN <<f>>
    ELSE IF RLt(Head(sorted)[2], f[2]) THEN <<f>> \o sorted
    ELSE <<Head(sorted)>> \o InsertFactor(f, Tail(sorted))

RECURSIVE SortFactors(_)
SortFactors(fs) ==
    IF fs = <<>> THEN <<>>
    ELSE InsertFactor(fs[Len(fs)], SortFactors(SubSeq(fs, 1, Len(fs) - 1)))

TopN(fs, n) == SubSeq(fs, 1, Min2(n, Len(fs)))

RECURSIVE Factors(_)
Factors(signals) ==
    IF signals = <<>> THEN <<>>
    ELSE <<<<Head(signals).source, Impact(Head(signals))>>>> \o Factors(Tail(signals))

\* _get_top_factors(signals, top_n=5)
get_top_factors(signals) == TopN(SortFactors(Factors(signals)), 5)

\* _determine_bias
determine_bias(bullish, bearish, confidence) ==
    LET abs_diff == RAbs(RSub(bullish, bearish))
    IN  IF RLt(confidence, RInt(30)) THEN "Neutral"
        ELSE IF RLt(abs_diff, RInt(10)) THEN "Neutral"
        ELSE IF RLt(abs_diff, RInt(25))
             THEN (IF RLt(bearish, bullish) THEN "Bullish" ELSE "Bearish")
        ELSE (IF RLt(bearish, bullish) THEN "Strong Bullish" ELSE "Strong Bearish")

RECURSIVE WeightedSignals(_)
WeightedSignals(signals) ==
    IF signals = <<>> THEN <<>>
    ELSE <<get_weighted_signal(Head(signals))>> \o WeightedSignals(Tail(signals))

min_confidence == 40

\* calculate_confluence(signals)
calculate_confluence(signals) ==
    LET IsValid(x)   == x.confidence >= min_confidence
        IsBullish(x) == x.signal_type = "bullish"
        IsBearish(x) == x.signal_type = "bearish"
        IsNeutral(x) == x.signal_type = "neutral"
        valid_signals   == SelectSeq(signals, IsValid)
        bullish_signals == SelectSeq(valid_signals, IsBullish)
        bearish_signals == SelectSeq(valid_signals, IsBearish)
        neutral_signals == SelectSeq(valid_signals, IsNeutral)
        bullish_score   == compute_score(bullish_signals)
        bearish_score   == compute_score(bearish_signals)
        confidence      == compute_confidence(valid_signals)
    IN  IF valid_signals = <<>>
        THEN ConfluenceResult(
                 [bullish_score |-> RInt(0), bearish_score |-> RInt(0),
                  neutral_probability |-> RInt(100),
                  confidence_percentage |-> RInt(0), market_bias |-> "Neutral",
                  signal_count |-> 0, bullish_signals |-> 0,
                  bearish_signals |-> 0, neutral_signals |-> 0,
                  top_factors |-> <<>>, weighted_signals |-> <<>>])
        ELSE ConfluenceResult(
                 [bullish_score |-> bullish_score,
                  bearish_score |-> bearish_score,
                  neutral_probability |->
                      compute_neutral(neutral_signals, Len(valid_signals)),
                  confidence_percentage |-> confidence,
                  market_bias |-> determine_bias(bullish_score, bearish_score,
                                                 confidence),
                  signal_count |-> Len(valid_signals),
                  bullish_signals |-> Len(bullish_signals),
                  bearish_signals |-> Len(bearish_signals),
                  neutral_signals |-> Len(neutral_signals),
                  top_factors |-> get_top_factors(valid_signals),
                  weighted_signals |-> WeightedSignals(valid_signals)])

\* What a call gives back: a value, or the exception it raised.
Returned(v)  == [raised |-> "", value |-> v]
Raised(kind) == [raised |-> kind, value |-> <<>>]

RECURSIVE WeightedSum(_, _, _)
WeightedSum(confluences, weights, field) ==
    IF confluences = <<>> THEN RInt(0)
    ELSE RAdd(RMul(Head(confluences)[field], Head(weights)),
              WeightedSum(Tail(confluences), Tail(weights), field))

RECURSIVE CountSum(_, _)
CountSum(confluences, field) ==
    IF confluences = <<>> THEN 0
    ELSE Head(confluences)[field] + CountSum(Tail(confluences), field)

RECURSIVE AllFactors(_)
AllFactors(confluences) ==
    IF confluences = <<>> THEN <<>>
    ELSE Head(confluences).top_factors \o AllFactors(Tail(confluences))

\* merge_confluences(confluences, weights); weights = <<>> stands for None.
merge_confluences(confluences, weights_arg) ==
    LET weights0 == IF weights_arg = <<>>
                    THEN [i \in 1..Len(confluences) |-> RInt(1)]
                    ELSE weights_arg
        total_weight == RSum(weights0)
        weights == [i \in 1..Len(weights0) |-> RDiv(weights0[i], total_weight)]
        bullish_avg == WeightedSum(confluences, weights, "bullish_score")
        bearish_avg == WeightedSum(confluences, weights, "bearish_score")
        neutral_avg == WeightedSum(confluences, weights, "neutral_probability")
        confidence_avg == WeightedSum(confluences, weights, "confidence_percentage")
    IN  IF confluences = <<>> THEN Raised("ValueError")
        ELSE IF Len(weights0) # Len(confluences) THEN Raised("ValueError")
        ELSE IF total_weight = RInt(0) THEN Raised("ZeroDivisionError")
        ELSE Returned(ConfluenceResult(
                 [bullish_score |-> bullish_avg,
                  bearish_score |-> bearish_avg,
                  neutral_probability |-> neutral_avg,
                  confidence_percentage |-> confidence_avg,
                  market_bias |-> determine_bias(bullish_avg, bearish_avg,
                                                 confidence_avg),
                  signal_count |-> CountSum(confluences, "signal_count"),
                  bullish_signals |-> CountSum(confluences, "bullish_signals"),
                  bearish_signals |-> CountSum(confluences, "bearish_signals"),
                  neutral_signals |-> CountSum(confluences, "neutral_signals"),
                  top_factors |-> TopN(SortFactors(AllFactors(confluences)), 5),
                  weighted_signals |-> <<>>]))

\* Signals handed to the engine: Signal.__post_init__ has clamped the
\* confidence to [0, 100] and the weight to >= 0.
SignalConfidences == {30, 70, 95}

\* Signals of the default weight, and two of twice that weight.
Signals ==
    {[category |-> c, signal_type |-> t, confidence |-> k, weight |-> 1,
      source |-> c] :
        c \in Categories, t \in SignalTypes, k \in SignalConfidences}
    \cup
    {[category |-> "STRUCTURE", signal_type |-> t, confidence |-> 95,
      weight |-> 2, source |-> "STRUCTURE"] : t \in {"bullish", "bearish"}}

\* A call analyses at most MaxSignals signals.
MaxSignals == 2

SignalLists == UNION {[1..n -> Signals] : n \in 0..MaxSignals}

\* Signal lists of the timeframes that are merged pairwise.
PairLists ==
    {<<>>} \cup
    {<<[category |-> "STRUCTURE", signal_type |-> t, confidence |-> k,
        weight |-> 1, source |-> "STRUCTURE"]>> :
        t \in SignalTypes, k \in {70, 95}}

\* What merge_confluences is called on: one result, of no signal or of one,
\* or a pair of results.
MergeLists ==
    {<<l>> : l \in {<<>>} \cup {<<x>> : x \in Signals}}
    \cup (PairLists \X PairLists)

\* Scores a ConfluenceResult is built from directly.
DirectScores == {-10, 0, 30, 60, 150}

\* Weight lists handed to merge_confluences; <<>> is None.
MergeWeights == {<<>>} \cup UNION {[1..n -> {0, 1, 2}] : n \in 1..2}

\* The observed call of the confluence engine: "none" until it is made.
NoCfLog == [op |-> "none", signals |-> <<>>, inputs |-> <<>>, weights |-> <<>>,
            result |-> Raised("none")]

\* engine.calculate_confluence(signals)
CfCalculate(signals) ==
    /\ cf_log.op = "none"
    /\ cf_log' = [NoCfLog EXCEPT !.op = "calculate", !.signals = signals,
                      !.result = Returned(calculate_confluence(signals))]
    /\ UNCHANGED <<mtf_log, appVars, cacheVars, monVars, engVars, busVars,
                   retryVars, svcVars, now>>

\* ConfluenceResult(...) built directly from four scores.
CfDirect(b, e, n, c) ==
    /\ cf_log.op = "none"
    /\ cf_log' = [NoCfLog EXCEPT !.op = "direct",
                      !.result = Returned(ConfluenceResult(
                          [bullish_score |-> RInt(b), bearish_score |-> RInt(e),
                           neutral_probability |-> RInt(n),
                           confidence_percentage |-> RInt(c),
                           market_bias |-> "Neutral", signal_count |-> 0,
                           bullish_signals |-> 0, bearish_signals |-> 0,
                           neutral_signals |-> 0, top_factors |-> <<>>,
                           weighted_signals |-> <<>>]))]
    /\ UNCHANGED <<mtf_log, appVars, cacheVars, monVars, engVars, busVars,
                   retryVars, svcVars, now>>

\* engine.merge_confluences(confluences, weights) on results that
\* calculate_confluence produced from `lists`.
CfMerge(lists, weights) ==
    LET confluences == [i \in 1..Len(lists) |-> calculate_confluence(lists[i])]
    IN  /\ cf_log.op = "none"
        /\ cf_log' = [NoCfLog EXCEPT
                          !.op = "merge", !.inputs = confluences,
                          !.weights = weights,
                          !.result = merge_confluences(confluences,
                              [i \in 1..Len(weights) |-> RInt(weights[i])])]
        /\ UNCHANGED <<mtf_log, appVars, cacheVars, monVars, engVars, busVars,
                       retryVars, svcVars, now>>

-----------------------------------------------------------------------------
(* analysis/multi_timeframe_orchestrator.py                                *)

\* None where a timeframe name, a number, a result object or a returned
\* tuple is expected.
None       == "None"
NoneNumber == <<0, 0>>
NoneResult == [none |-> TRUE]
NoneTuple  == <<>>

\* An optional argument: given, or left to its default None.
Given(x)  == [given |-> TRUE, arg |-> x]
NotGiven  == [given |-> FALSE, arg |-> <<>>]

\* TimeframeWeight.WEIGHTS.get(tf, 1.0)
WEIGHTS(tf) ==
    CASE tf = "M1" -> Rat(6, 10)   [] tf = "M5" -> Rat(7, 10)
      [] tf = "M15" -> Rat(8, 10)  [] tf = "M30" -> Rat(85, 100)
      [] tf = "H1" -> Rat(9, 10)   [] tf = "H4" -> Rat(10, 10)
      [] tf = "D1" -> Rat(11, 10)  [] tf = "W1" -> Rat(12, 10)
      [] tf = "MN1" -> Rat(13, 10) [] OTHER -> RInt(1)

\* The label rule of TimeframeBias.__init__ and of _compute_aggregates.
bias_of_diff(diff) ==
    IF RLt(RInt(25), diff) THEN "Strong Bullish"
    ELSE IF RLt(RInt(10), diff) THEN "Bullish"
    ELSE IF RLt(diff, RInt(-25)) THEN "Strong Bearish"
    ELSE IF RLt(diff, RInt(-10)) THEN "Bearish"
    ELSE "Neutral"

\* TimeframeBias(timeframe, bullish_score, bearish_score, confidence, weight)
TimeframeBias(timeframe, bullish_score, bearish_score, confidence, weight) ==
    [timeframe |-> timeframe, bullish_score |-> bullish_score,
     bearish_score |-> bearish_score, confidence |-> confidence,
     weight |-> weight,
     bias_direction |-> bias_of_diff(RSub(bullish_score, bearish_score))]

\* {tf.timeframe: tf.weight for tf in self.timeframes}: the keys, and the
\* value of a key (that of its last occurrence).
WeightKeys(timeframes) == {timeframes[i].timeframe : i \in 1..Len(timeframes)}

WeightOf(timeframes, key) ==
    LET last == CHOOSE i \in 1..Len(timeframes) :
                    /\ timeframes[i].timeframe = key
                    /\ \A j \in (i + 1)..Len(timeframes) :
                           timeframes[j].timeframe # key
    IN  timeframes[last].weight

\* sum(d.values()) for a dict given as a function
RECURSIVE SumValues(_, _)
SumValues(d, keys) ==
    IF keys = {} THEN RInt(0)
    ELSE LET k == CHOOSE x \in keys : TRUE
         IN  RAdd(d[k], SumValues(d, keys \ {k}))

\* TimeframeWeight.normalize
normalize(weights) ==
    LET total == SumValues(weights, DOMAIN weights)
    IN  IF RLe(total, RInt(0)) THEN weights
        ELSE [tf \in DOMAIN weights |-> RDiv(weights[tf], total)]

\* sum(tf.<field> * normalized_weights[tf.timeframe] for tf in timeframes)
RECURSIVE WeightedField(_, _, _)
WeightedField(timeframes, normalized_weights, field) ==
    IF timeframes = <<>> THEN RInt(0)
    ELSE RAdd(RMul(Head(timeframes)[field],
                   normalized_weights[Head(timeframes).timeframe]),
              WeightedField(Tail(timeframes), normalized_weights, field))

RECURSIVE Alignments(_, _)
Alignments(timeframes, overall_bias) ==
    IF timeframes = <<>> THEN <<>>
    ELSE <<IF Head(timeframes).bias_direction = overall_bias
           THEN RInt(1) ELSE Rat(1, 2)>>
         \o Alignments(Tail(timeframes), overall_bias)

\* MultiTimeframeResult(symbol, timeframes) with _compute_aggregates
MultiTimeframeResult(timeframes) ==
    LET weights == [tf \in WeightKeys(timeframes) |-> WeightOf(timeframes, tf)]
        normalized_weights == normalize(weights)
        total_weight == SumValues(normalized_weights, DOMAIN normalized_weights)
        Overall(field) ==
            IF RLt(RInt(0), total_weight)
            THEN RDiv(WeightedField(timeframes, normalized_weights, field),
                      total_weight)
            ELSE RInt(0)
        overall_bullish == Overall("bullish_score")
        overall_bearish == Overall("bearish_score")
        overall_bias    == bias_of_diff(RSub(overall_bullish, overall_bearish))
    IN  IF timeframes = <<>>
        THEN [timeframes |-> timeframes, overall_bullish |-> RInt(0),
              overall_bearish |-> RInt(0), overall_confidence |-> RInt(0),
              overall_bias |-> "Neutral", confluence |-> NoneNumber]
        ELSE [timeframes |-> timeframes,
              overall_bullish |-> overall_bullish,
              overall_bearish |-> overall_bearish,
              overall_confidence |-> Overall("confidence"),
              overall_bias |-> overall_bias,
              confluence |->
                  IF Len(timeframes) > 1
                  THEN RMul(RDiv(RSum(Alignments(timeframes, overall_bias)),
                                 RInt(Len(timeframes))), RInt(100))
                  ELSE RInt(100)]

\* What the injected collaborators give for one requested timeframe: the
\* market data manager gives no frame or an empty one, the analyzer raises or
\* finds no signal, or the confluence engine returns scores.
Failed(kind) == [kind |-> kind, bullish |-> RInt(0), bearish |-> RInt(0),
                 confidence |-> RInt(0)]

Scored(b, e, c) == [kind |-> "ok", bullish |-> RInt(b), bearish |-> RInt(e),
                    confidence |-> RInt(c)]

\* timeframe_weights.get(tf, 1.0), with the default dict when None is given
RequestWeight(timeframe_weights, tf) ==
    IF ~timeframe_weights.given THEN WEIGHTS(tf)
    ELSE IF tf \in DOMAIN timeframe_weights.arg THEN timeframe_weights.arg[tf]
    ELSE RInt(1)

\* An analysis that gives up at the first timeframe that fails.
RECURSIVE analyze_loop_abort_on_failure(_, _, _)
analyze_loop_abort_on_failure(timeframes, timeframe_weights, outcomes) ==
    IF timeframes = <<>> THEN <<>>
    ELSE IF Head(outcomes).kind # "ok" THEN <<>>
    ELSE <<TimeframeBias(Head(timeframes), Head(outcomes).bullish,
                         Head(outcomes).bearish, Head(outcomes).confidence,
                         RequestWeight(timeframe_weights, Head(timeframes)))>>
         \o analyze_loop_abort_on_failure(Tail(timeframes), timeframe_weights,
                                          Tail(outcomes))

\* Lines 223-260: the loop over the requested timeframes.
RECURSIVE analyze_loop(_, _, _)
analyze_loop(timeframes, timeframe_weights, outcomes) ==
    IF timeframes = <<>> THEN <<>>
    ELSE LET tf   == Head(timeframes)
             o    == Head(outcomes)
             rest == analyze_loop(Tail(timeframes), timeframe_weights,
                                  Tail(outcomes))
         IN  IF o.kind \in {"no_candles", "empty_candles"} THEN rest
             ELSE IF o.kind = "analyzer_raises" THEN rest
             ELSE IF o.kind = "no_signals" THEN rest
             ELSE <<TimeframeBias(tf, o.bullish, o.bearish, o.confidence,
                                  RequestWeight(timeframe_weights, tf))>>
                  \o rest

\* analyze_multiple_timeframes(symbol, timeframes, timeframe_weights)
analyze_multiple_timeframes(timeframes, timeframe_weights, outcomes) ==
    LET timeframe_biases == analyze_loop(timeframes, timeframe_weights, outcomes)
    IN  IF timeframes = <<>> THEN Returned(NoneResult)
        ELSE IF timeframe_biases = <<>> THEN Returned(NoneResult)
        ELSE Returned(MultiTimeframeResult(timeframe_biases))

\* Lines 364-373: the scoring loop; best is <<best_tf, best_score>>.
RECURSIVE sweet_spot_loop(_, _, _)
sweet_spot_loop(timeframes, confluence, best) ==
    IF timeframes = <<>> THEN best
    ELSE LET score == RMul(Head(timeframes).confidence,
                           RDiv(confluence, RInt(100)))
         IN  sweet_spot_loop(Tail(timeframes), confluence,
                 IF RLt(best[2], score)
                 THEN <<Head(timeframes).timeframe, score>> ELSE best)

DefaultSweetSpotTimeframes == <<"M15", "M30", "H1", "H4", "D1">>

\* get_sweet_spot_timeframe(symbol, timeframes)
get_sweet_spot_timeframe(timeframes_arg, outcomes) ==
    LET timeframes == IF ~timeframes_arg.given THEN DefaultSweetSpotTimeframes
                      ELSE timeframes_arg.arg
        result == analyze_multiple_timeframes(timeframes, NotGiven, outcomes).value
        best   == sweet_spot_loop(result.timeframes, result.confluence,
                                  <<None, RInt(0)>>)
    IN  IF result = NoneResult THEN Returned(NoneTuple)
        ELSE IF result.timeframes = <<>> THEN Returned(NoneTuple)
        ELSE IF best[1] # None THEN Returned(best)
        ELSE Returned(NoneTuple)

\* Timeframe lists a caller asks for.
Requests == {<<>>, <<"H1">>, <<"H1", "H4">>, <<"H1", "H4", "D1">>,
             <<"D1", "H1">>}

\* Scores a timeframe's confluence can have: a clear lead, leads of exactly
\* 25 and exactly 10, a lead held with little confidence, and no score.
Outcomes ==
    {Failed(k) : k \in {"no_candles", "empty_candles", "analyzer_raises",
                        "no_signals"}}
    \cup {Scored(70, 20, 70), Scored(60, 35, 70), Scored(45, 55, 70),
          Scored(20, 70, 20), Scored(0, 0, 0)}

\* Weight dicts a caller gives: none, or one of zeros.
WeightArgs ==
    {NotGiven, Given([tf \in {"H1", "H4", "D1"} |-> RInt(0)])}

\* The observed call of the orchestrator: "none" until it is made.
NoMtfLog == [op |-> "none", timeframes |-> <<>>, weights |-> NotGiven,
             outcomes |-> <<>>, result |-> Raised("none")]

\* orchestrator.analyze_multiple_timeframes(symbol, timeframes, weights)
MtfAnalyze(timeframes, weights, outcomes) ==
    /\ mtf_log.op = "none"
    /\ mtf_log' = [op |-> "analyze", timeframes |-> timeframes,
                   weights |-> weights, outcomes |-> outcomes,
                   result |-> analyze_multiple_timeframes(timeframes, weights,
                                                          outcomes)]
    /\ UNCHANGED <<cf_log, appVars, cacheVars, monVars, engVars, busVars,
                   retryVars, svcVars, now>>

\* orchestrator.get_sweet_spot_timeframe(symbol, timeframes)
MtfSweetSpot(timeframes_arg, outcomes) ==
    /\ mtf_log.op = "none"
    /\ mtf_log' = [op |-> "sweet_spot",
                   timeframes |-> IF timeframes_arg.given THEN timeframes_arg.arg
                                  ELSE DefaultSweetSpotTimeframes,
                   weights |-> NotGiven, outcomes |-> outcomes,
                   result |-> get_sweet_spot_timeframe(timeframes_arg, outcomes)]
    /\ UNCHANGED <<cf_log, appVars, cacheVars, monVars, engVars, busVars,
                   retryVars, svcVars, now>>

\* MultiTimeframeResult(symbol, []) built directly.
MtfEmptyResult ==
    /\ mtf_log.op = "none"
    /\ mtf_log' = [NoMtfLog EXCEPT !.op = "direct",
                       !.result = Returned(MultiTimeframeResult(<<>>))]
    /\ UNCHANGED <<cf_log, appVars, cacheVars, monVars, engVars, busVars,
                   retryVars, svcVars, now>>

-----------------------------------------------------------------------------
(* core/error_handlers.py: the retry_on_disconnect wrapper                 *)

\* The decorator's defaults, which are also the values of MT5_CONFIG.
max_retries == 3
delay == 1
backoff == 2

\* Values the wrapped operation can return.
FuncResults == {"r1", "r2"}

\* The observed call: loop iterations entered, calls of the wrapped
\* operation, the seconds slept, each failed attempt's cause, and how the
\* call ended ("" while it runs, else "returned" or the exception raised).
NoRetryLog == [attempts |-> 0, calls |-> 0, waits |-> <<>>, failures |-> <<>>,
               ended |-> "", value |-> "None"]

\* wrapper, lines 60-61: the locals before the first iteration.
RetryCall ==
    /\ retry_pc = "idle"
    /\ retry_pc' = "initialize"
    /\ retry_attempt' = 0
    /\ retry_delay' = delay
    /\ retry_log' = NoRetryLog
    /\ UNCHANGED <<appVars, cacheVars, monVars, engVars, busVars, anaVars, svcVars,
                   now>>

\* except MT5ConnectionError, lines 71-86 and 93: sleep before the next
\* iteration while attempt < max_retries, else leave the loop and raise
\* last_error.
on_connection_error(log, cause) ==
    LET failed == [log EXCEPT !.failures = Append(@, cause)]
    IN  IF retry_attempt < max_retries
        THEN /\ retry_pc' = "sleep"
             /\ retry_log' = failed
        ELSE /\ retry_pc' = "raised"
             /\ retry_log' = [failed EXCEPT !.ended = "MT5ConnectionError"]

\* lines 63-67: an iteration starts with mt5.initialize().
RetryInitialize(ok) ==
    /\ retry_pc = "initialize"
    /\ LET log == [retry_log EXCEPT !.attempts = @ + 1]
       IN  IF ok
           THEN /\ retry_pc' = "func"
                /\ retry_log' = log
           ELSE on_connection_error(log, "not_initialized")
    /\ UNCHANGED <<retry_attempt, retry_delay>>
    /\ UNCHANGED <<appVars, cacheVars, monVars, engVars, busVars, anaVars, svcVars,
                   now>>

\* line 69: the wrapped operation returns a value.
RetryFuncReturns(value) ==
    /\ retry_pc = "func"
    /\ retry_pc' = "returned"
    /\ retry_log' = [retry_log EXCEPT !.calls = @ + 1, !.ended = "returned",
                                      !.value = value]
    /\ UNCHANGED <<retry_attempt, retry_delay>>
    /\ UNCHANGED <<appVars, cacheVars, monVars, engVars, busVars, anaVars, svcVars,
                   now>>

\* lines 69, 71: the wrapped operation raises MT5ConnectionError.
RetryFuncDisconnected ==
    /\ retry_pc = "func"
    /\ on_connection_error([retry_log EXCEPT !.calls = @ + 1], "disconnected")
    /\ UNCHANGED <<retry_attempt, retry_delay>>
    /\ UNCHANGED <<appVars, cacheVars, monVars, engVars, busVars, anaVars, svcVars,
                   now>>

\* lines 69, 88-91: the wrapped operation raises any other exception.
RetryFuncFails ==
    /\ retry_pc = "func"
    /\ retry_pc' = "raised"
    /\ retry_log' = [retry_log EXCEPT !.calls = @ + 1, !.ended = "Exception"]
    /\ UNCHANGED <<retry_attempt, retry_delay>>
    /\ UNCHANGED <<appVars, cacheVars, monVars, engVars, busVars, anaVars, svcVars,
                   now>>

\* lines 80-81 and the loop header: time.sleep(current_delay) is over, the
\* delay is multiplied and the next iteration starts.
RetrySleep ==
    /\ retry_pc = "sleep"
    /\ retry_log' = [retry_log EXCEPT !.waits = Append(@, retry_delay)]
    /\ retry_delay' = retry_delay * backoff
    /\ retry_attempt' = retry_attempt + 1
    /\ retry_pc' = "initialize"
    /\ UNCHANGED <<appVars, cacheVars, monVars, engVars, busVars, anaVars, svcVars,
                   now>>

-----------------------------------------------------------------------------
(* safety/trading_blocker.py and the calls made on the MetaTrader5 bridge   *)

\* Names are sequences of characters. str.lower() on the letters that occur.
UpperLetters == {"A", "B", "C", "D", "E", "F", "G", "H", "I", "J", "K", "L", "M",
                 "N", "O", "P", "Q", "R", "S", "T", "U", "V", "W", "X", "Y", "Z"}

LowerOf == [c \in UpperLetters |->
    CASE c = "A" -> "a" [] c = "B" -> "b" [] c = "C" -> "c" [] c = "D" -> "d"
      [] c = "E" -> "e" [] c = "F" -> "f" [] c = "G" -> "g" [] c = "H" -> "h"
      [] c = "I" -> "i" [] c = "J" -> "j" [] c = "K" -> "k" [] c = "L" -> "l"
      [] c = "M" -> "m" [] c = "N" -> "n" [] c = "O" -> "o" [] c = "P" -> "p"
      [] c = "Q" -> "q" [] c = "R" -> "r" [] c = "S" -> "s" [] c = "T" -> "t"
      [] c = "U" -> "u" [] c = "V" -> "v" [] c = "W" -> "w" [] c = "X" -> "x"
      [] c = "Y" -> "y" [] c = "Z" -> "z"]

lower(name) ==
    [i \in 1..Len(name) |->
        IF name[i] \in UpperLetters THEN LowerOf[name[i]] ELSE name[i]]

\* Python's `op in name` on strings: op is a contiguous part of name.
IsSubstring(op, name) ==
    \E i \in 1..(Len(name) - Len(op) + 1) :
        SubSeq(name, i, i + Len(op) - 1) = op

\* __init__: self.blocked_operations
blocked_operations ==
    {<<"o", "r", "d", "e", "r", "_", "s", "e", "n", "d">>,
    <<"o", "r", "d", "e", "r", "_", "m", "o", "d", "i", "f", "y">>,
    <<"o", "r", "d", "e", "r", "_", "c", "a", "n", "c", "e", "l">>,
    <<"o", "r", "d", "e", "r", "_", "c", "h", "e", "c", "k">>,
    <<"d", "e", "a", "l", "_", "c", "o", "m", "m", "e", "n", "t">>,
    <<"p", "o", "s", "i", "t", "i", "o", "n", "_", "m", "o", "d", "i", "f", "y">>,
    <<"p", "o", "s", "i", "t", "i", "o", "n", "_", "c", "l", "o", "s", "e">>}

\* is_trading_function without the lower(): the name is matched as given.
is_trading_function_case_sensitive(function_name) ==
    \E op \in blocked_operations : IsSubstring(op, function_name)

is_trading_function(function_name) ==
    LET function_lower == lower(function_name)
    IN  \E op \in blocked_operations : IsSubstring(op, function_lower)

\* The MetaTrader5 functions the sources call (mt5.<name>(...)).
BridgeFunctions ==
    {<<"i", "n", "i", "t", "i", "a", "l", "i", "z", "e">>,
    <<"s", "h", "u", "t", "d", "o", "w", "n">>,
    <<"l", "a", "s", "t", "_", "e", "r", "r", "o", "r">>,
    <<"v", "e", "r", "s", "i", "o", "n">>,
    <<"t", "e", "r", "m", "i", "n", "a", "l", "_", "i", "n", "f", "o">>,
    <<"a", "c", "c", "o", "u", "n", "t", "_", "i", "n", "f", "o">>,
    <<"p", "o", "s", "i", "t", "i", "o", "n", "s", "_", "g", "e", "t">>,
    <<"s", "y", "m", "b", "o", "l", "s", "_", "g", "e", "t">>,
    <<"s", "y", "m", "b", "o", "l", "_", "i", "n", "f", "o">>,
    <<"s", "y", "m", "b", "o", "l", "_", "i", "n", "f", "o", "_", "t", "i", "c", "k">>,
    <<"c", "o", "p", "y", "_", "r", "a", "t", "e", "s", "_", "f", "r", "o", "m">>,
    <<"c", "o", "p", "y", "_", "r", "a", "t", "e", "s", "_", "f", "r", "o", "m", "_", "p", "o", "s">>}

\* Function names handed to the blocker: each blocked operation as written,
\* in capitals and with capital initials, and names that hold none of them,
\* alone or inside a longer name.
upper(name) ==
    [i \in 1..Len(name) |->
        IF \E c \in UpperLetters : LowerOf[c] = name[i]
        THEN CHOOSE c \in UpperLetters : LowerOf[c] = name[i]
        ELSE name[i]]

capitalized(name) ==
    [i \in 1..Len(name) |->
        IF i = 1 \/ (i > 1 /\ name[i - 1] = "_") THEN upper(name)[i] ELSE name[i]]

OtherNames ==
    {<<"o", "r", "d", "e", "r", "_", "c", "a", "l", "c", "_", "m", "a", "r", "g", "i", "n">>,
    <<"o", "r", "d", "e", "r", "s", "_", "g", "e", "t">>,
    <<"p", "o", "s", "i", "t", "i", "o", "n", "s", "_", "g", "e", "t">>,
    <<"a", "c", "c", "o", "u", "n", "t", "_", "i", "n", "f", "o">>,
    <<"o", "r", "d", "e", "r", "s", "e", "n", "d">>,
    <<"o", "r", "d", "e", "r">>,
    <<"s", "e", "n", "d", "_", "o", "r", "d", "e", "r">>,
    <<"p", "o", "s", "i", "t", "i", "o", "n", "_", "o", "p", "e", "n">>,
    <<>>}

NameCores ==
    blocked_operations
    \cup {upper(op) : op \in blocked_operations}
    \cup {capitalized(op) : op \in blocked_operations}
    \cup OtherNames \cup BridgeFunctions

NamePrefixes == {<<>>, <<"m", "t", "5", ".">>, <<"D", "o", "_">>}
NameSuffixes == {<<>>, <<"_", "a", "l", "l">>}

FunctionNames ==
    {p \o c \o x : p \in NamePrefixes, c \in NameCores, x \in NameSuffixes}

\* The bridge calls one execution is followed for.
MaxBridgeCalls == 2

NoTbLog == [op |-> "none", name |-> <<>>, raised |-> "", logged |-> FALSE]

\* A component calls a function of the bridge.
BridgeCall(f) ==
    /\ Len(bridge_calls) < MaxBridgeCalls
    /\ bridge_calls' = Append(bridge_calls, f)
    /\ UNCHANGED <<tb_log, coreVars, symVars, pureVars, connVars, lcVars>>

\* block_if_trading: log and raise RuntimeError for a trading function.
BlockIfTrading(function_name) ==
    /\ tb_log.op = "none"
    /\ tb_log' = IF is_trading_function(function_name)
                 THEN [op |-> "block_if_trading", name |-> function_name,
                       raised |-> "RuntimeError", logged |-> TRUE]
                 ELSE [op |-> "block_if_trading", name |-> function_name,
                       raised |-> "", logged |-> FALSE]
    /\ UNCHANGED <<bridge_calls, coreVars, symVars, pureVars, connVars, lcVars>>

-----------------------------------------------------------------------------
(* mt5/symbols.py: SymbolManager.refresh                                   *)

\* Symbol names the terminal can list.
CatalogSymbols == {"EURUSD", "XAUUSD", "BTCUSD"}

\* Callbacks registered per list.
MaxSymbolCallbacks == 1

\* What mt5.symbols_get() does: it returns the symbols, returns None (the
\* bridge's way to report a failed read), or raises.
SymbolsGot(names) == [kind |-> "symbols", names |-> names]
SymbolsNone == [kind |-> "none", names |-> {}]
SymbolsRaises == [kind |-> "raises", names |-> {}]
BridgeSymbolReads ==
    {SymbolsGot(names) : names \in SUBSET CatalogSymbols}
    \cup {SymbolsNone, SymbolsRaises}

\* get_all_symbols: the names, [] for None or an empty answer, None when
\* the call raised.
get_all_symbols(read) ==
    CASE read.kind = "raises" -> [none |-> TRUE, names |-> {}]
      [] read.kind = "none" -> [none |-> FALSE, names |-> {}]
      [] OTHER -> [none |-> FALSE, names |-> read.names]

NoSymLog == [op |-> "none", read |-> SymbolsRaises, before |-> {},
             result |-> FALSE, added |-> {}, removed |-> {},
             new_calls |-> 0, removed_calls |-> 0]

\* register_new_symbols_callback
SymRegisterNew ==
    /\ on_new_symbols < MaxSymbolCallbacks
    /\ on_new_symbols' = on_new_symbols + 1
    /\ UNCHANGED <<symbol_cache, on_removed_symbols, sym_log, coreVars, safeVars, pureVars, connVars, lcVars>>

\* register_removed_symbols_callback
SymRegisterRemoved ==
    /\ on_removed_symbols < MaxSymbolCallbacks
    /\ on_removed_symbols' = on_removed_symbols + 1
    /\ UNCHANGED <<symbol_cache, on_new_symbols, sym_log, coreVars, safeVars, pureVars, connVars, lcVars>>

\* refresh(): `read` is the outcome of mt5.symbols_get().
SymRefresh(read) ==
    LET old_symbols == symbol_cache
        symbols == get_all_symbols(read)
    IN  /\ IF symbols.none
           THEN /\ sym_log' = [NoSymLog EXCEPT !.op = "refresh", !.read = read,
                                               !.before = old_symbols]
                /\ UNCHANGED symbol_cache
           ELSE LET new_symbols == symbols.names
                    added_symbols == new_symbols \ old_symbols
                    removed_symbols == old_symbols \ new_symbols
                IN  /\ symbol_cache' = new_symbols
                    /\ sym_log' =
                           [op |-> "refresh", read |-> read,
                            before |-> old_symbols, result |-> TRUE,
                            added |-> added_symbols,
                            removed |-> removed_symbols,
                            new_calls |-> IF added_symbols # {}
                                          THEN on_new_symbols ELSE 0,
                            removed_calls |-> IF removed_symbols # {}
                                              THEN on_removed_symbols ELSE 0]
        /\ UNCHANGED <<on_new_symbols, on_removed_symbols, coreVars, safeVars, pureVars, connVars, lcVars>>

\* symbol_exists
symbol_exists(symbol) == symbol \in symbol_cache

-----------------------------------------------------------------------------
(* analysis/forex/sessions.py: SessionAnalysis.tag_sessions                *)

\* session_name(ts) with h = ts.hour and m = ts.minute.
session_name(h, m) ==
    IF h >= 21 \/ h < 6 THEN "Tokyo"
    ELSE IF h >= 8 /\ (h < 16 \/ (h = 16 /\ m <= 30)) THEN "London"
    ELSE IF h >= 13 /\ h < 22 THEN "NewYork"
    ELSE "Sydney"

Hours == 0..23
Minutes == 0..59

NoSesLog == [op |-> "none", hour |-> 0, minute |-> 0, session |-> ""]

\* tag_sessions applies session_name to a candle's timestamp.
TagSession(h, m) ==
    /\ ses_log.op = "none"
    /\ ses_log' = [op |-> "tag", hour |-> h, minute |-> m,
                   session |-> session_name(h, m)]
    /\ UNCHANGED <<fx_log, coreVars, safeVars, symVars, connVars, lcVars>>

-----------------------------------------------------------------------------
(* analysis/forex/analyzer.py: ForexAnalyzer.analyze on a dict input and    *)
(* analysis/forex/confluence.py                                            *)

\* A signal value: a number that float() accepts, or something it rejects
\* (a nested dict, a label such as 'Unknown').
Num(v) == [numeric |-> TRUE, value |-> v]
NotNumeric == [numeric |-> FALSE, value |-> 0]

\* ConfluenceAnalysis._numeric_list: the values float() accepts, in order.
RECURSIVE numeric_list(_)
numeric_list(values) ==
    IF values = <<>> THEN <<>>
    ELSE (IF Head(values).numeric THEN <<RInt(Head(values).value)>> ELSE <<>>)
         \o numeric_list(Tail(values))

calculate_confluence_score(signals) ==
    IF signals = <<>> THEN RInt(50)
    ELSE LET values == numeric_list(signals)
         IN  IF Len(values) = 0 THEN RInt(50) ELSE RMean(values)

bullish_confluence_count(signals) ==
    Cardinality({i \in DOMAIN signals :
                    signals[i].numeric /\ signals[i].value >= 60})

bearish_confluence_count(signals) ==
    Cardinality({i \in DOMAIN signals :
                    signals[i].numeric /\ signals[i].value <= 40})

confluence_strength_rating(confluence_score) ==
    IF RLe(RInt(75), confluence_score) THEN "Strong Bullish"
    ELSE IF RLe(RInt(60), confluence_score) THEN "Bullish"
    ELSE IF RLe(confluence_score, RInt(25)) THEN "Strong Bearish"
    ELSE IF RLe(confluence_score, RInt(40)) THEN "Bearish"
    ELSE "Neutral"

\* The setup status of lines 312-325.
setup_status(confluence_score, struct_score, patt_score) ==
    IF RLe(RInt(65), confluence_score) /\ struct_score >= 55 /\ patt_score >= 50
    THEN "valid"
    ELSE IF RLe(RInt(50), confluence_score) \/ struct_score >= 50
            \/ patt_score >= 45
    THEN "forming"
    ELSE "no_setup"

\* The direction of line 328.
direction(confluence_score) ==
    IF RLt(RInt(52), confluence_score) THEN "bullish"
    ELSE IF RLt(confluence_score, RInt(48)) THEN "bearish"
    ELSE "neutral"

SignalValues == {NotNumeric, Num(20), Num(50), Num(80)}
MaxCurrentSignals == 2

\* What _gather_signals(current) does: it raises, or returns its signals.
CurrentRaises == [raised |-> TRUE, signals |-> <<>>]
CurrentOutcomes ==
    {CurrentRaises} \cup
    {[raised |-> FALSE, signals |-> sig] :
        sig \in UNION {[1..n -> SignalValues] : n \in 0..MaxCurrentSignals}}

PatternScores == {0, 45, 50, 55}

\* The historical side: no usable window, a pipeline that raises in its
\* first call, or a pipeline that yields the structure and candlestick
\* pattern scores beside labels that are not numbers.
NoHistorical == [window |-> FALSE, raised |-> FALSE,
                 structure_score |-> 0, pattern_score |-> 0]
HistoricalOutcomes ==
    {NoHistorical} \cup
    {[window |-> TRUE, raised |-> TRUE, structure_score |-> 0,
      pattern_score |-> 0]} \cup
    {[window |-> TRUE, raised |-> FALSE, structure_score |-> st,
      pattern_score |-> pt] : st \in PatternScores, pt \in PatternScores}

\* historical_signals flattened for scoring (lines 288-293).
flatten_historical(historical) ==
    IF ~historical.window \/ historical.raised THEN <<>>
    ELSE <<Num(historical.structure_score), NotNumeric,
           Num(historical.pattern_score)>>

NoFxResult == [confluence_score |-> RInt(0), signal_count |-> 0,
               bullish_signals |-> 0, bearish_signals |-> 0, rating |-> "",
               setup_status |-> "", direction |-> ""]

NoFxLog == [op |-> "none", current |-> CurrentRaises,
            historical |-> NoHistorical, merged |-> <<>>,
            result |-> NoFxResult]

\* analyze({'current': ..., 'historical': ...}) with `current` a DataFrame.
ForexAnalyze(current, historical) ==
    /\ fx_log.op = "none"
    /\ LET current_signals == IF current.raised THEN <<>> ELSE current.signals
           merged_for_confluence ==
               current_signals \o flatten_historical(historical)
           confluence_score ==
               calculate_confluence_score(merged_for_confluence)
           historical_ok == historical.window /\ ~historical.raised
           struct_score ==
               IF historical_ok THEN historical.structure_score ELSE 0
           patt_score ==
               IF historical_ok THEN historical.pattern_score ELSE 0
       IN  fx_log' =
             [op |-> "analyze", current |-> current,
              historical |-> historical, merged |-> merged_for_confluence,
              result |->
                [confluence_score |-> confluence_score,
                 signal_count |-> Len(merged_for_confluence),
                 bullish_signals |->
                     bullish_confluence_count(merged_for_confluence),
                 bearish_signals |->
                     bearish_confluence_count(merged_for_confluence),
                 rating |-> confluence_strength_rating(confluence_score),
                 setup_status |->
                     setup_status(confluence_score, struct_score, patt_score),
                 direction |-> direction(confluence_score)]]
    /\ UNCHANGED <<ses_log, coreVars, safeVars, symVars, connVars, lcVars>>

-----------------------------------------------------------------------------
(* mt5/connector.py: MT5Connector.detect_session_change called directly    *)

\* Observation: what the bridge reported and what the call returned, for the
\* last call and for the call before it.
NoConnLog == [op |-> "none", acc |-> NoAccount, ret |-> FALSE,
              prev_acc |-> NoAccount, prev_ret |-> FALSE,
              prev_account |-> NoLogin, prev_server |-> NoServer]

\* A caller invokes detect_session_change() on the connector.
ConnDetect ==
    LET d == detect_session_change(mt5_account, session_account,
                                   session_server, session_id)
    IN  /\ session_account' = d.account
        /\ session_server' = d.server
        /\ session_id' = d.id
        /\ conn_log' = [op |-> "detect", acc |-> mt5_account, ret |-> d.ret,
                        prev_acc |-> conn_log.acc, prev_ret |-> conn_log.ret,
                        prev_account |-> session_account,
                        prev_server |-> session_server]
        /\ UNCHANGED <<mt5_account, app_pc, lifecycle_state, last_session_id,
                       app_log, cacheVars, now, monVars, engVars, busVars,
                       anaVars, retryVars, safeVars, symVars, pureVars, lcVars>>

-----------------------------------------------------------------------------
(* core/lifecycle.py: LifecycleManager called directly                     *)

NoLcLog == [op |-> "none", old |-> "initializing", new |-> "initializing",
            ret |-> FALSE, after |-> "initializing", callbacks |-> 0,
            registered |-> 0]

\* register_state_change_callback(callback)
LcRegister ==
    /\ lc_callbacks < MaxCallbacks
    /\ lc_callbacks' = lc_callbacks + 1
    /\ UNCHANGED <<lc_log, coreVars, safeVars, symVars, pureVars, connVars>>

\* transition_to(new_state): validates against the table, sets the state,
\* runs the callbacks and returns True; returns False otherwise.
LcTransition(new_state) ==
    LET old_state == lifecycle_state
        allowed == new_state \in valid_transitions(old_state)
    IN  /\ lifecycle_state' = transition_to(old_state, new_state)
        /\ lc_log' = [op |-> "transition_to", old |-> old_state,
                      new |-> new_state, ret |-> allowed,
                      after |-> transition_to(old_state, new_state),
                      callbacks |-> IF allowed THEN lc_callbacks ELSE 0,
                      registered |-> lc_callbacks]
        /\ UNCHANGED <<lc_callbacks, mt5_account, session_account,
                       session_server, session_id, app_pc, last_session_id,
                       app_log, cacheVars, now, monVars, engVars, busVars,
                       anaVars, retryVars, safeVars, symVars, pureVars,
                       connVars>>

-----------------------------------------------------------------------------
(* Specifications                                                          *)

Init ==
    /\ mt5_account = [login |-> 1, server |-> "S1"]
    /\ session_account = NoLogin
    /\ session_server = NoServer
    /\ session_id = NoSession
    /\ app_pc = "start"
    /\ lifecycle_state = "initializing"
    /\ last_session_id = NoSession
    /\ data_cache = EmptyCache
    /\ app_log = NoAppLog
    /\ now = 0
    /\ md_log = NoMdLog
    /\ invalidated = {}
    /\ mon_monitoring = FALSE
    /\ mon_thread = "none"
    /\ mon_last_snapshot = NoSnapshot
    /\ mon_callbacks = Unbound
    /\ mon_on_changed = 0
    /\ mon_on_disconnected = 0
    /\ mon_last_read = NoSnapshot
    /\ mon_log = NoMonLog
    /\ eng_pc = "idle"
    /\ stop_event = FALSE
    /\ loop_running = FALSE
    /\ stop_scheduled = FALSE
    /\ eng_args = NoArgs
    /\ last_full_refresh = NoTime
    /\ eng_cached = Missing
    /\ need_full = FALSE
    /\ eng_fetched = <<>>
    /\ eng_first = TRUE
    /\ eng_log = NoEngLog
    /\ main_loop = FALSE
    /\ ws_state = [ws \in Sockets |-> "new"]
    /\ active = <<>>
    /\ scheduled = <<>>
    /\ tasks = [k \in Updates |-> NoTask]
    /\ pending = [ws \in Sockets |-> <<>>]
    /\ delivered = [ws \in Sockets |-> <<>>]
    /\ bus_next = 1
    /\ cf_log = NoCfLog
    /\ mtf_log = NoMtfLog
    /\ retry_pc = "idle"
    /\ retry_attempt = 0
    /\ retry_delay = 0
    /\ retry_log = NoRetryLog
    /\ bridge_calls = <<>>
    /\ tb_log = NoTbLog
    /\ symbol_cache = {}
    /\ on_new_symbols = 0
    /\ on_removed_symbols = 0
    /\ sym_log = NoSymLog
    /\ ses_log = NoSesLog
    /\ fx_log = NoFxLog
    /\ conn_log = NoConnLog
    /\ lc_callbacks = 0
    /\ lc_log = NoLcLog

\* The CLI application against a terminal whose account can change.
NextApp ==
    \/ AppRun
    \/ AppCheckSession
    \/ \E s \in Symbols, tf \in Timeframes :
          \E rows \in CurrentBarRows(now) : AppAnalyze(s, tf, rows)
    \/ AppQuit
    \/ \E a \in Accounts \cup {NoAccount} : TerminalSwitch(a)

SpecApp == Init /\ [][NextApp]_vars

\* A MarketDataManager used through its public methods.
NextCache ==
    \/ \E s \in Symbols, tf \in Timeframes \cup {UnknownTimeframe} :
          \E rows \in CurrentBarRows(now) : MdGetCandles(s, tf, rows)
    \/ \E s \in Symbols : MdInvalidateSymbol(s)
    \/ MdInvalidateAll
    \/ \E s \in Symbols \cup {""} : MdClearCache(s)
    \/ Tick

SpecCache == Init /\ [][NextCache]_vars

\* The account monitor polling a terminal whose account can change.
NextMonitor ==
    \/ MonStart
    \/ MonStop
    \/ MonExit
    \/ \E snapshot \in Snapshots \cup {NoSnapshot} : MonPoll(snapshot)
    \/ MonRegisterChanged
    \/ MonRegisterDisconnected

SpecMonitor == Init /\ [][NextMonitor]_vars

\* The engine thread's steps.
EngThread ==
    \/ EngRunLoop
    \/ EngIterate
    \/ EngMerge
    \/ \E ok \in BOOLEAN : EngAnalyzed(ok)
    \/ EngWake
    \/ EngLoopStopped

\* The engine, started and stopped by its caller, against a terminal that
\* returns bars with distinct open times.
NextEngine ==
    \/ \E s \in EngineSymbols, tf \in EngineTimeframes : EngStart(s, tf, TRUE)
    \/ EngStartIgnored
    \/ EngStop
    \/ EngThread
    \/ \E rows \in RecentTerminalRows(now) : EngFetch(rows)
    \/ Tick

SpecEngine == Init /\ [][NextEngine]_vars

\* The engine's thread under its scheduler within one bar, against a terminal
\* that returns the forming bar or nothing.
NextEngineRun ==
    \/ \E s \in EngineSymbols, tf \in EngineTimeframes : EngStart(s, tf, TRUE)
    \/ EngStartIgnored
    \/ EngStop
    \/ EngThread
    \/ \E rows \in CurrentBarRows(now) : EngFetch(rows)

\* Every step of the engine thread is eventually taken: the thread is
\* scheduled, and bridge calls and the analysis return.
EngFairness ==
    /\ WF_vars(EngThread)
    /\ WF_vars(\E rows \in CurrentBarRows(now) : EngFetch(rows))

SpecEngineRun == Init /\ [][NextEngineRun]_vars /\ EngFairness

\* The same engine against a bridge that may return any rows.
NextEngineRaw ==
    \/ \E s \in EngineSymbols, tf \in EngineTimeframes : EngStart(s, tf, TRUE)
    \/ EngStartIgnored
    \/ EngStop
    \/ EngThread
    \/ \E rows \in RecentArbitraryRows(now) : EngFetch(rows)
    \/ Tick

SpecEngineRaw == Init /\ [][NextEngineRaw]_vars

\* poll_interval values given to start().
PollIntervals == {1, 5, 30}

\* The engine with or without a callback, whose analysis and callback may
\* raise, under its scheduler within one bar.
NextEngineFaults ==
    \/ \E s \in EngineSymbols, tf \in EngineTimeframes, cb \in BOOLEAN,
          poll \in PollIntervals : EngStartPoll(s, tf, cb, poll)
    \/ EngStartIgnored
    \/ EngStop
    \/ EngThread
    \/ EngCallbackRaises
    \/ \E rows \in CurrentBarRows(now) : EngFetch(rows)

\* The engine restarted for other symbols, timeframes and callbacks.
StartRequests ==
    {[symbol |-> "EURUSD", timeframe |-> "H1", update_cb |-> TRUE],
     [symbol |-> "BOOM500", timeframe |-> "M15", update_cb |-> FALSE]}

NextEngineRestart ==
    \/ \E r \in StartRequests : EngStart(r.symbol, r.timeframe, r.update_cb)
    \/ \E r \in StartRequests :
          EngStartWhileAlive(r.symbol, r.timeframe, r.update_cb)
    \/ EngStop
    \/ EngThread
    \/ \E rows \in CurrentBarRows(now) : EngFetch(rows)

SpecEngineRestart == Init /\ [][NextEngineRestart]_vars /\ EngFairness

SpecEngineFaults ==
    /\ Init /\ [][NextEngineFaults]_vars
    /\ EngFairness
    /\ WF_vars(EngCallbackRaises)

\* The web application: sockets come and go while the engine's callback
\* hands updates to the WebSocket manager.
NextBus ==
    \/ BusStartup
    \/ \E ws \in Sockets : WsConnect(ws)
    \/ \E ws \in Sockets : WsDisconnect(ws)
    \/ BusCallback
    \/ BroadcastStart
    \/ \E ws \in Sockets, ok \in BOOLEAN : SendDone(ws, ok)

SpecBus == Init /\ [][NextBus]_vars

\* The confluence engine called on signal lists, on scores and on results.
NextConfluence ==
    \/ \E signals \in SignalLists : CfCalculate(signals)
    \/ \E b, e, n, c \in DirectScores : CfDirect(b, e, n, c)
    \/ \E lists \in MergeLists :
          \E weights \in MergeWeights : CfMerge(lists, weights)
    \/ CfMerge(<<>>, <<>>)

SpecConfluence == Init /\ [][NextConfluence]_vars

\* The orchestrator called on a request, with what its collaborators give
\* for each requested timeframe.
NextOrchestrator ==
    \/ \E timeframes \in Requests, weights \in WeightArgs :
          \E outcomes \in [1..Len(timeframes) -> Outcomes] :
              MtfAnalyze(timeframes, weights, outcomes)
    \/ \E timeframes \in Requests :
          \E outcomes \in [1..Len(timeframes) -> Outcomes] :
              MtfSweetSpot(Given(timeframes), outcomes)
    \/ \E o \in Outcomes :
          MtfSweetSpot(NotGiven, [i \in 1..Len(DefaultSweetSpotTimeframes) |-> o])
    \/ MtfEmptyResult

SpecOrchestrator == Init /\ [][NextOrchestrator]_vars

\* One call of an operation wrapped by retry_on_disconnect.
NextRetry ==
    \/ RetryCall
    \/ \E ok \in BOOLEAN : RetryInitialize(ok)
    \/ \E value \in FuncResults : RetryFuncReturns(value)
    \/ RetryFuncDisconnected
    \/ RetryFuncFails
    \/ RetrySleep

SpecRetry == Init /\ [][NextRetry]_vars

\* Components calling the bridge, and a caller asking the trading blocker.
NextSafety ==
    \/ \E f \in BridgeFunctions : BridgeCall(f)
    \/ \E name \in FunctionNames : BlockIfTrading(name)

SpecSafety == Init /\ [][NextSafety]_vars

\* The symbol catalog, refreshed against a bridge whose read may fail.
NextSymbols ==
    \/ SymRegisterNew
    \/ SymRegisterRemoved
    \/ \E read \in BridgeSymbolReads : SymRefresh(read)

SpecSymbols == Init /\ [][NextSymbols]_vars

\* The application's run() and callers of the lifecycle manager asking for
\* any state at any time.
NextLifecycle ==
    \/ AppRun
    \/ AppCheckSession
    \/ AppQuit
    \/ \E a \in Accounts \cup {NoAccount} : TerminalSwitch(a)
    \/ LcRegister
    \/ \E new_state \in AppStates : LcTransition(new_state)

SpecLifecycle == Init /\ [][NextLifecycle]_vars

\* The connector polled for session changes while the terminal's account
\* changes or becomes unreadable.
NextConnector ==
    \/ ConnDetect
    \/ \E a \in Accounts \cup {NoAccount} : TerminalSwitch(a)

SpecConnector == Init /\ [][NextConnector]_vars

\* Session tagging of a candle at any time of the day.
NextSessions == \E h \in Hours, m \in Minutes : TagSession(h, m)

SpecSessions == Init /\ [][NextSessions]_vars

\* One Forex analysis of a {current, historical} input.
NextForex ==
    \E current \in CurrentOutcomes, historical \in HistoricalOutcomes :
        ForexAnalyze(current, historical)

SpecForex == Init /\ [][NextForex]_vars

-----------------------------------------------------------------------------
(* Properties                                                              *)

C4_ChangeReportedOnce ==
    (mon_log.op = "read" /\ mon_log.prev_read # NoSnapshot)
    => IF ~is_same_account(mon_log.new, mon_log.prev_read)
       THEN /\ mon_log.changed_calls = mon_log.registered
            /\ (mon_log.registered > 0 => mon_log.old = mon_log.prev_read)
       ELSE mon_log.changed_calls = 0

\* C5: whenever detect_session_change() returns True, the session id read
\* after the call differs from the session id before the call.
C5_ChangeGivesNewSessionId ==
    (app_log.op = "check" /\ app_log.changed)
    => app_log.sid_after # app_log.sid_before

\* C6: get_candles on a (symbol, timeframe) whose cache entry is not stale
\* makes no bridge call.
C6_FreshServedFromCache ==
    (md_log.op = "get_candles" /\ md_log.fresh) => ~md_log.bridge

\* C7: after invalidate_symbol_cache(s), clear_cache(s), clear_cache() or
\* invalidate_all_cache(), get_cached_data(s, tf) returns no data for every
\* timeframe until a fetch for s stores data again.
C7_InvalidatedStaysEmpty ==
    \A s \in invalidated : \A tf \in Timeframes :
        get_cached_data(data_cache, s, tf) = Missing

\* C7 witness: a symbol with cached data has just been invalidated while
\* the other symbol keeps its data.
C7_Witness ==
    /\ md_log.op \in {"invalidate_symbol_cache", "clear_cache"}
    /\ md_log.symbol \in Symbols
    /\ md_log.had_data
    /\ \E s \in Symbols \ invalidated : HasData(data_cache, s)

\* C2: once stop() has been called on a started engine its thread
\* eventually exits, and no update callback is invoked for an iteration
\* whose loop test ran after stop().
C2_StopEndsEngine ==
    /\ [](~eng_log.callback_in_stopped_iter)
    /\ ((stop_event /\ EngAlive) ~> ~EngAlive)

\* stop() arrived while the fetch was offloaded and the thread has exited.
C2_Witness ==
    /\ stop_event
    /\ ~EngAlive
    /\ eng_log.op = "fetching"

\* C8: an iteration that starts more than 60 minutes after the last full
\* fetch that returned data performs a full fetch, not a top-up.
C8_FullFetchWhenDue ==
    (eng_pc = "fetch" /\ eng_log.overdue_ok) => need_full

CachedTimestamps == {eng_cached.data[j].Timestamp : j \in 1..Len(eng_cached.data)}

SoundCandle(c) ==
    /\ c.Low <= Min2(c.Open, c.Close)
    /\ Max2(c.Open, c.Close) <= c.High

StrictlyIncreasing(df) ==
    \A i \in 1..(Len(df) - 1) : df[i].Timestamp < df[i + 1].Timestamp

\* C10: every cached window has strictly increasing timestamps and every
\* candle in it satisfies low <= min(open, close) <= max(open, close) <= high.
C10_CachedWindowsWellFormed ==
    \A s \in Symbols : \A tf \in Timeframes :
        data_cache[s][tf].present =>
            /\ StrictlyIncreasing(data_cache[s][tf].data)
            /\ \A i \in 1..Len(data_cache[s][tf].data) :
                   SoundCandle(data_cache[s][tf].data[i])

\* C1: every subscriber is sent the updates in engine-iteration order: no
\* socket is sent an update before an update with a smaller number.
C1_UpdatesInOrder ==
    \A ws \in Sockets :
        \A i, j \in 1..Len(delivered[ws]) :
            i < j => delivered[ws][i] < delivered[ws][j]

ScoreInRange(x) == RLe(RInt(0), x) /\ RLe(x, RInt(100))

ScoreSum(r) == RAdd(RAdd(r.bullish_score, r.bearish_score), r.neutral_probability)

\* C11: every ConfluenceResult has its three scores and its confidence in
\* [0, 100], and the three scores sum to 0 (all zero) or to 100 within 0.01.
C11_ScoresNormalized ==
    cf_log.result.raised = "" =>
        LET r == cf_log.result.value
        IN  /\ ScoreInRange(r.bullish_score)
            /\ ScoreInRange(r.bearish_score)
            /\ ScoreInRange(r.neutral_probability)
            /\ ScoreInRange(r.confidence_percentage)
            /\ \/ /\ r.bullish_score = RInt(0)
                  /\ r.bearish_score = RInt(0)
                  /\ r.neutral_probability = RInt(0)
               \/ RLe(RAbs(RSub(ScoreSum(r), RInt(100))), Rat(1, 100))

\* calculate_confluence returned a result whose raw scores summed to more
\* than 100 and were scaled down.
C11_Witness ==
    /\ cf_log.op = "calculate"
    /\ Len(cf_log.signals) = 2
    /\ cf_log.signals[1].signal_type = "bullish"
    /\ cf_log.signals[2].signal_type = "bearish"
    /\ cf_log.signals[1].confidence = 95
    /\ cf_log.signals[2].confidence = 70
    /\ ScoreSum(cf_log.result.value) = RInt(100)

\* C12: the market_bias label of a calculate_confluence result agrees with
\* the scores stored in that result: a Strong label needs a gap above 25 in
\* its direction, a plain Bullish or Bearish label a gap of at least 10.
C12_BiasAgreesWithScores ==
    cf_log.op = "calculate" =>
        LET r == cf_log.result.value
            b == r.bullish_score
            e == r.bearish_score
        IN  /\ r.market_bias = "Strong Bullish" => RLt(RAdd(e, RInt(25)), b)
            /\ r.market_bias = "Strong Bearish" => RLt(RAdd(b, RInt(25)), e)
            /\ r.market_bias = "Bullish" => RLe(RInt(10), RSub(b, e))
            /\ r.market_bias = "Bearish" => RLe(RInt(10), RSub(e, b))

\* sign(direction) * confidence * effective_weight
SignedValue(s) ==
    LET sign == CASE s.signal_type = "bullish" -> 1
                  [] s.signal_type = "bearish" -> -1
                  [] s.signal_type = "neutral" -> 0
    IN  RMul(RMul(RInt(sign), RInt(s.confidence)), get_effective_weight(s))

\* C13: the weighted value of every retained signal is sign(direction) *
\* confidence * effective weight, so the value of a Neutral signal is 0.
C13_WeightedSignalSigned ==
    cf_log.op = "calculate" =>
        LET Retained(x) == x.confidence >= min_confidence
            kept == SelectSeq(cf_log.signals, Retained)
            ws   == cf_log.result.value.weighted_signals
        IN  \A i \in 1..Len(kept) : ws[i] = SignedValue(kept[i])

\* C14: merging a single calculate_confluence result gives that result back.
C14_MergeOfOneIsIdentity ==
    (cf_log.op = "merge" /\ Len(cf_log.inputs) = 1 /\ cf_log.weights = <<>>) =>
        /\ cf_log.result.raised = ""
        /\ cf_log.result.value = cf_log.inputs[1]

\* The MultiTimeframeResult of the observed call, when it made one.
MtfHasResult ==
    /\ mtf_log.op \in {"analyze", "direct"}
    /\ mtf_log.result.raised = ""
    /\ mtf_log.result.value # NoneResult

RECURSIVE FieldValues(_, _)
FieldValues(timeframes, field) ==
    IF timeframes = <<>> THEN <<>>
    ELSE <<Head(timeframes)[field]>> \o FieldValues(Tail(timeframes), field)

\* C15: when the timeframe weights sum to zero the overall bullish, bearish
\* and confidence are the plain averages over the timeframes.
C15_ZeroWeightsUniform ==
    (MtfHasResult /\ mtf_log.op = "analyze" /\ mtf_log.weights.given) =>
        LET r == mtf_log.result.value
        IN  /\ r.overall_bullish = RMean(FieldValues(r.timeframes, "bullish_score"))
            /\ r.overall_bearish = RMean(FieldValues(r.timeframes, "bearish_score"))
            /\ r.overall_confidence = RMean(FieldValues(r.timeframes, "confidence"))

\* C15, the merge: merge_confluences with all-zero weights returns a result.
C15_MergeZeroWeights ==
    (cf_log.op = "merge" /\ Len(cf_log.inputs) = Len(cf_log.weights)
        /\ cf_log.weights # <<>>
        /\ \A i \in 1..Len(cf_log.weights) : cf_log.weights[i] = 0)
    => cf_log.result.raised = ""

\* C16: the confluence of a MultiTimeframeResult is a number in [0, 100]: 100
\* with one timeframe, and with several 100 times the average of 1.0 per
\* timeframe labelled as the overall result and 0.5 per other timeframe.
C16_ConfluenceInRange ==
    MtfHasResult =>
        LET r == mtf_log.result.value
        IN  /\ r.confluence # NoneNumber
            /\ RLe(RInt(0), r.confluence)
            /\ RLe(r.confluence, RInt(100))
            /\ Len(r.timeframes) = 1 => r.confluence = RInt(100)
            /\ Len(r.timeframes) > 1 =>
                   r.confluence =
                       RMul(RInt(100),
                            RMean(Alignments(r.timeframes, r.overall_bias)))

\* C17: the label of every timeframe and the overall label are the labels
\* _determine_bias gives for the same bullish, bearish and confidence.
C17_LabelsAsDetermineBias ==
    MtfHasResult =>
        LET r == mtf_log.result.value
        IN  /\ \A i \in 1..Len(r.timeframes) :
                   r.timeframes[i].bias_direction =
                       determine_bias(r.timeframes[i].bullish_score,
                                      r.timeframes[i].bearish_score,
                                      r.timeframes[i].confidence)
            /\ r.overall_bias = determine_bias(r.overall_bullish,
                                               r.overall_bearish,
                                               r.overall_confidence)

\* Scenario E4: H1, H4 and D1 each with bullish 70, bearish 20, confidence 70.
ScenarioE4 ==
    /\ mtf_log.timeframes = <<"H1", "H4", "D1">>
    /\ \A i \in 1..3 : mtf_log.outcomes[i] = Scored(70, 20, 70)

\* C18: get_sweet_spot_timeframe returns a timeframe whose confidence x
\* (overall confluence / 100) is the largest among the analysed timeframes,
\* and in scenario E4 it returns D1.
C18_SweetSpotMaximizes ==
    mtf_log.op = "sweet_spot" =>
        LET r == analyze_multiple_timeframes(mtf_log.timeframes, NotGiven,
                                             mtf_log.outcomes).value
            got == mtf_log.result.value
            Score(i) == RMul(r.timeframes[i].confidence,
                             RDiv(r.confluence, RInt(100)))
        IN  /\ r # NoneResult =>
                /\ got # NoneTuple
                /\ \E i \in 1..Len(r.timeframes) :
                       /\ r.timeframes[i].timeframe = got[1]
                       /\ Score(i) = got[2]
                /\ \A i \in 1..Len(r.timeframes) : RLe(Score(i), got[2])
            /\ ScenarioE4 => (got # NoneTuple /\ got[1] = "D1")

RECURSIVE Succeeded(_, _)
Succeeded(timeframes, outcomes) ==
    IF timeframes = <<>> THEN <<>>
    ELSE (IF Head(outcomes).kind = "ok"
          THEN <<[timeframe |-> Head(timeframes), bullish |-> Head(outcomes).bullish,
                  bearish |-> Head(outcomes).bearish,
                  confidence |-> Head(outcomes).confidence]>>
          ELSE <<>>)
         \o Succeeded(Tail(timeframes), Tail(outcomes))

\* C19: analyze_multiple_timeframes never raises; it returns None exactly
\* when no requested timeframe produced a bias, and otherwise a result that
\* holds the timeframes that succeeded, with their scores, in request order.
C19_FailuresSkippedLocally ==
    mtf_log.op = "analyze" =>
        LET ok == Succeeded(mtf_log.timeframes, mtf_log.outcomes)
            r  == mtf_log.result.value
        IN  /\ mtf_log.result.raised = ""
            /\ (r = NoneResult) <=> (ok = <<>>)
            /\ r # NoneResult =>
                   /\ Len(r.timeframes) = Len(ok)
                   /\ \A i \in 1..Len(ok) :
                          /\ r.timeframes[i].timeframe = ok[i].timeframe
                          /\ r.timeframes[i].bullish_score = ok[i].bullish
                          /\ r.timeframes[i].bearish_score = ok[i].bearish
                          /\ r.timeframes[i].confidence = ok[i].confidence

\* Of three requested timeframes the first has no candles, the analyzer
\* raised on the second, and the third succeeded and is the result's only one.
C19_Witness ==
    /\ mtf_log.op = "analyze"
    /\ mtf_log.timeframes = <<"H1", "H4", "D1">>
    /\ mtf_log.outcomes[1].kind = "no_candles"
    /\ mtf_log.outcomes[2].kind = "analyzer_raises"
    /\ mtf_log.outcomes[3].kind = "ok"
    /\ mtf_log.result.value # NoneResult
    /\ Len(mtf_log.result.value.timeframes) = 1
    /\ mtf_log.result.value.timeframes[1].timeframe = "D1"

\* C20: the wrapped operation is attempted at most 3 times when it keeps
\* failing with a connection error, after waits of 1 s and then 2 s; any
\* other error ends the call at once, and on the first attempt it does so
\* with no wait.
C20_RetryPolicy ==
    /\ retry_log.attempts <= 3
    /\ retry_log.calls <= 3
    /\ Len(retry_log.waits) <= 2
    /\ \A i \in 1..Len(retry_log.waits) : retry_log.waits[i] = <<1, 2>>[i]
    /\ retry_log.ended = "Exception" => retry_pc = "raised"
    /\ (retry_log.ended = "Exception" /\ retry_log.failures = <<>>) =>
           (retry_log.attempts = 1 /\ retry_log.waits = <<>>)

\* The order and position mutation verbs.
MutationVerbs ==
    {<<"o", "r", "d", "e", "r", "_", "s", "e", "n", "d">>,
     <<"o", "r", "d", "e", "r", "_", "m", "o", "d", "i", "f", "y">>,
     <<"o", "r", "d", "e", "r", "_", "c", "a", "n", "c", "e", "l">>,
     <<"o", "r", "d", "e", "r", "_", "c", "h", "e", "c", "k">>,
     <<"p", "o", "s", "i", "t", "i", "o", "n", "_", "m", "o", "d", "i", "f", "y">>,
     <<"p", "o", "s", "i", "t", "i", "o", "n", "_", "c", "l", "o", "s", "e">>,
     <<"d", "e", "a", "l", "_", "c", "o", "m", "m", "e", "n", "t">>}

SameLetter(a, b) ==
    \/ a = b
    \/ a \in UpperLetters /\ LowerOf[a] = b
    \/ b \in UpperLetters /\ LowerOf[b] = a

HoldsVerb(name) ==
    \E verb \in MutationVerbs :
        \E i \in 1..(Len(name) - Len(verb) + 1) :
            \A j \in 1..Len(verb) : SameLetter(name[i + j - 1], verb[j])

\* C21: no bridge function that was called is an order or position
\* mutation, and block_if_trading raises exactly for the names that hold a
\* mutation verb in any letter case; for every other name it returns and
\* logs nothing.
C21_OnlyReadsAndBlockerRaises ==
    /\ \A i \in 1..Len(bridge_calls) :
           ~HoldsVerb(bridge_calls[i]) /\ ~is_trading_function(bridge_calls[i])
    /\ tb_log.op = "block_if_trading" =>
           /\ (tb_log.raised = "RuntimeError") <=> HoldsVerb(tb_log.name)
           /\ ~HoldsVerb(tb_log.name) => (tb_log.raised = "" /\ ~tb_log.logged)

\* The blocker raised for a name that holds a verb in capitals, after two
\* bridge calls.
C21_Witness ==
    /\ Len(bridge_calls) = 2
    /\ tb_log.op = "block_if_trading"
    /\ tb_log.raised = "RuntimeError"
    /\ lower(tb_log.name) # tb_log.name
    /\ HoldsVerb(tb_log.name)

\* C22: an iteration whose analysis raised leaves the engine asleep for
\* max(5, poll_interval), and unless stop() is called the next iteration
\* starts; the same holds after a callback that raised; an iteration that
\* completed its analysis invoked the callback once.
C22_ErrorsDoNotEndLoop ==
    /\ [](eng_log.op = "error" /\ eng_pc = "sleep" =>
            /\ EngAlive
            /\ eng_log.sleep_for = IF eng_args.poll_interval >= 5
                                   THEN eng_args.poll_interval ELSE 5
            /\ eng_log.callbacks = 0)
    /\ [](eng_log.op = "analyzed" /\ eng_pc = "sleep" =>
            /\ eng_log.sleep_for = eng_args.poll_interval
            /\ eng_args.update_cb => eng_log.callbacks = 1)
    /\ (eng_log.op = "error" /\ eng_pc = "sleep")
           ~> (stop_event \/ eng_pc = "fetch")
    /\ (eng_log.callback_raised /\ eng_pc = "sleep")
           ~> (stop_event \/ eng_pc = "fetch")

\* The analysis raised with poll_interval 1: the engine sleeps 5 seconds,
\* alive and not stopped.
C22_Witness ==
    /\ eng_log.op = "error"
    /\ eng_pc = "sleep"
    /\ eng_args.poll_interval = 1
    /\ eng_log.sleep_for = 5
    /\ ~stop_event

\* C23: a refresh whose bridge read succeeded returns True, reports as
\* added the symbols now listed that were not listed before and as removed
\* the reverse, calls the new-symbols callbacks only when something was added
\* and the removed-symbols callbacks only when something was removed, and
\* makes symbol_exists true exactly for the symbols now listed; a refresh
\* whose bridge read failed returns False, calls no callback and leaves the
\* symbol set as it was.
C23_RefreshDiffs ==
    sym_log.op = "refresh" =>
        IF sym_log.read.kind = "symbols"
        THEN /\ sym_log.result
             /\ sym_log.added = sym_log.read.names \ sym_log.before
             /\ sym_log.removed = sym_log.before \ sym_log.read.names
             /\ sym_log.new_calls =
                    IF sym_log.added # {} THEN on_new_symbols ELSE 0
             /\ sym_log.removed_calls =
                    IF sym_log.removed # {} THEN on_removed_symbols ELSE 0
             /\ \A x \in CatalogSymbols :
                    symbol_exists(x) <=> x \in sym_log.read.names
        ELSE /\ ~sym_log.result
             /\ sym_log.new_calls = 0
             /\ sym_log.removed_calls = 0
             /\ symbol_cache = sym_log.before

\* The GMT bands: London 08:00-16:30, NewYork 13:00-22:00, Tokyo 21:00-06:00.
InLondon(h, m) == h * 60 + m >= 8 * 60 /\ h * 60 + m <= 16 * 60 + 30
InNewYork(h, m) == h * 60 + m >= 13 * 60 /\ h * 60 + m < 22 * 60
InTokyo(h, m) == h * 60 + m >= 21 * 60 \/ h * 60 + m < 6 * 60

\* C24: every candle gets one session, the first of London, NewYork, Tokyo
\* whose band holds its time, and Sydney when none does.
C24_SessionFallthrough ==
    ses_log.op = "tag" =>
        ses_log.session =
            IF InLondon(ses_log.hour, ses_log.minute) THEN "London"
            ELSE IF InNewYork(ses_log.hour, ses_log.minute) THEN "NewYork"
            ELSE IF InTokyo(ses_log.hour, ses_log.minute) THEN "Tokyo"
            ELSE "Sydney"

\* C25: a poll that cannot read the account invokes every registered
\* disconnected callback once when the poll before it held a snapshot, and
\* none when the account was already unreadable or has not been read yet; a
\* poll that reads the account invokes none.
C25_DisconnectReportedOnce ==
    /\ mon_log.op \in {"unreadable", "error"} =>
           mon_log.disconnected_calls =
               IF mon_log.had_snapshot THEN mon_log.registered_disconnected
               ELSE 0
    /\ mon_log.op = "read" => mon_log.disconnected_calls = 0

\* C26: after a call of detect_session_change that returned True for a
\* changed login or server, the next call made while the bridge reports the
\* same login and server returns False; and once a session is tracked the
\* session id is the tracked login joined with the tracked server.
C26_SwitchReportedOnce ==
    /\ (/\ conn_log.op = "detect"
        /\ conn_log.prev_ret
        /\ conn_log.prev_acc # NoAccount
        /\ conn_log.acc = conn_log.prev_acc) => ~conn_log.ret
    /\ session_account # NoLogin =>
           session_id = FormatSessionId(session_account, session_server)

\* C27: after a top-up merge, every open time that is both in the window
\* cached before the fetch and in the freshly fetched bars has, in the cache,
\* the freshly fetched candle.
C27_TopUpTakesFreshValues ==
    (eng_pc = "analyze" /\ eng_log.op = "topup") =>
        LET merged == data_cache[eng_args.symbol][eng_args.timeframe].data
        IN  \A i \in 1..Len(eng_fetched) :
                (\E k \in 1..Len(eng_cached.data) :
                     eng_cached.data[k].Timestamp = eng_fetched[i].Timestamp)
                => \E j \in 1..Len(merged) : merged[j] = eng_fetched[i]

\* The allowed transitions.
AllowedTransitions ==
    {<<"initializing", "running">>, <<"initializing", "error">>,
     <<"initializing", "shutdown">>,
     <<"running", "paused">>, <<"running", "shutting_down">>,
     <<"running", "error">>,
     <<"paused", "running">>, <<"paused", "shutting_down">>,
     <<"paused", "error">>,
     <<"shutting_down", "shutdown">>, <<"shutting_down", "error">>,
     <<"error", "shutdown">>, <<"error", "initializing">>}

\* One allowed transition, or the two of a shutdown().
AllowedPath(old, new) ==
    \/ <<old, new>> \in AllowedTransitions
    \/ \E mid \in AppStates : /\ <<old, mid>> \in AllowedTransitions
                               /\ <<mid, new>> \in AllowedTransitions

\* C28: a transition_to call changes the state only along the table, and a
\* disallowed one returns False, leaves the state and calls no callback;
\* the state, whoever changes it, moves along allowed transitions and never
\* leaves shutdown; and when run() has ended the state is shutdown.
C28_LifecycleFollowsTable ==
    /\ [](lc_log.op = "transition_to" =>
            /\ lc_log.ret <=> <<lc_log.old, lc_log.new>> \in AllowedTransitions
            /\ lc_log.after = IF lc_log.ret THEN lc_log.new ELSE lc_log.old
            /\ ~lc_log.ret => lc_log.callbacks = 0
            /\ lc_log.ret => lc_log.callbacks = lc_log.registered)
    /\ [][/\ lifecycle_state' # lifecycle_state =>
                AllowedPath(lifecycle_state, lifecycle_state')
          /\ lifecycle_state = "shutdown" => lifecycle_state' = "shutdown"]_vars
    /\ [](app_pc = "done" => lifecycle_state = "shutdown")

\* run() has ended after a failed initialization, and a later
\* transition_to(running) was refused with a callback registered.
C28_Witness ==
    /\ app_pc = "done"
    /\ app_log.op = "initialize"
    /\ ~app_log.result
    /\ lc_log.op = "transition_to"
    /\ lc_log.old = "shutdown"
    /\ lc_log.new = "running"
    /\ ~lc_log.ret
    /\ lc_callbacks > 0

\* C29: at most one engine thread is alive; a start() made while it is alive
\* changes neither what is analysed, nor the callback, nor the stop request,
\* nor where the thread is; a start() made when no thread is alive begins a
\* loop for the symbol, timeframe and callback it was given, with the stop
\* request cleared, and that loop reaches its first fetch unless stopped.
C29_OneEngineThread ==
    /\ [](eng_log.threads <= 1 /\ (EngAlive <=> eng_log.threads = 1))
    /\ [](EngAlive /\ eng_log.ignored => eng_args # NoArgs)
    /\ [][(EngAlive /\ EngAlive') =>
             /\ eng_args' = eng_args
             /\ (stop_event => stop_event')]_vars
    /\ [][(/\ eng_log'.ignored
            /\ (~eng_log.ignored \/ eng_log'.requested # eng_log.requested)) =>
             /\ eng_pc' = eng_pc
             /\ stop_event' = stop_event
             /\ eng_args' = eng_args]_vars
    /\ [][(~EngAlive /\ EngAlive') =>
             /\ eng_args' = eng_log'.requested
             /\ ~eng_log'.ignored
             /\ ~stop_event'
             /\ eng_pc' = "boot"
             /\ eng_first']_vars
    /\ (eng_pc = "boot" /\ ~stop_event) ~> (stop_event \/ eng_pc = "fetch")

\* After a stop the engine runs again for another symbol and timeframe, a
\* start() for yet another symbol was ignored, and a stop request is pending.
C29_Witness ==
    /\ EngAlive
    /\ eng_args.symbol = "BOOM500"
    /\ eng_args.timeframe = "M15"
    /\ eng_log.ignored
    /\ eng_log.requested.symbol = "EURUSD"
    /\ stop_event
    /\ eng_log.last_full_ok # NoTime

\* C30: an analysis of a {current, historical} input whose merged signals
\* hold no number (the current pipeline raised or gave no numeric value and
\* the historical side gave none) returns a result whose setup_status is
\* 'no_setup' and whose direction is 'neutral'.
C30_NoSignalsNoSetup ==
    (fx_log.op = "analyze" /\ numeric_list(fx_log.merged) = <<>>) =>
        /\ fx_log.result # NoFxResult
        /\ fx_log.result.setup_status = "no_setup"
        /\ fx_log.result.direction = "neutral"

====
